---- MODULE Spec2Model ----
(***************************************************************************)
(* Model of the follower station ("Computer B") of the synchronized gaze   *)
(* sharing experiment, src/b_hard.py: the control channel                  *)
(* (RobustSyncClient), the gaze channel (send_gaze_data,                   *)
(* receive_gaze_data) and the stage coordinator                            *)
(* (run_synchronized_experiment).                                          *)
(*                                                                         *)
(* The specifications share the variables:                                 *)
(*   Spec      the follower running run_synchronized_experiment, with its  *)
(*             control receive thread, in a session of one trial: the      *)
(*             network carries the initiator's datagrams in their order    *)
(*             and may drop, duplicate, reorder or inject up to MaxFaults  *)
(*             of them;                                                    *)
(*   SpecChan  the control channel alone, driven by an arbitrary caller of *)
(*             wait_for_message / get_message / send_message / close;      *)
(*             SpecClient is the same from the construction of the client  *)
(*             on, start_client included;                                  *)
(*   SpecGaze  the gaze channel alone, driven by an arbitrary caller.      *)
(*                                                                         *)
(* Time.  Clocks are not modelled by numbers.  A display loop runs one or  *)
(* more frames and may end after any of them.  The deadline of             *)
(* wait_for_message passes only while no message of the awaited type is    *)
(* queued: dequeuing a queued message takes microseconds, the timeouts in  *)
(* the program are 0.1 s and 60 s.                                         *)
(***************************************************************************)
EXTENDS Integers, Sequences, FiniteSets, TLC

(***************************************************************************)
(* Bounds of the model.                                                    *)
(***************************************************************************)
\* datagrams the network delivers while this many messages are still queued
MaxQueue == 2
\* frames a display loop renders at most before its duration has elapsed
MaxFrames == 2
\* gaze samples the tracker yields in a session
MaxGazeSends == 1
\* datagrams delivered to the control channel in SpecChan
MaxDeliveries == 3
\* calls of send_gaze_data, and receipts of the gaze receive loop, in SpecGaze
MaxGazeEvents == 2
\* datagrams the network drops, duplicates, reorders or injects in a session
MaxFaults == 1
\* the salts an interpreter can draw for its str hash are 0..MaxSalt
MaxSalt == 2

(***************************************************************************)
(* Python values.                                                          *)
(***************************************************************************)
\* Python's None in a slot that holds strings
None == "None"
\* Python's None in a slot that holds a message
NoMsg == [none |-> TRUE]
\* {} : a JSON object without keys
EmptyData == [k \in {} |-> 0]
\* dict.get(key, default)
Get(d, k, default) == IF k \in DOMAIN d THEN d[k] ELSE default
\* dict.update(other)
Update(d, u) == [k \in (DOMAIN d) \cup (DOMAIN u) |-> IF k \in DOMAIN u THEN u[k] ELSE d[k]]
\* an integer slot that is not bound (a local read before assignment)
Unbound == -1
\* Python's None in a slot that holds numbers
NoneNum == -1

CATEGORY_MAP == <<"face", "limb", "house", "car">>

\* default of send_message's retry_count parameter
retry_count == 3

VARIABLES
    \* ---- control channel (RobustSyncClient)
    message_queue,     \* self.message_queue, oldest first
    running,           \* self.running
    socket,            \* self.socket: "open" or "closed"
    rpc,               \* position of the receive thread
    wpc,               \* position inside wait_for_message
    wait_type,         \* expected_type of the running wait_for_message
    wmsg,              \* the message wait_for_message holds between get and put
    wret,              \* what wait_for_message returned
    ctl_last,          \* the last send_message call: type, data, attempts, ok
    ctl_seq,           \* flips on every send_message call
    pings,             \* ping messages the receive thread has decoded
    pongs,             \* pong datagrams handed to the socket without error
    pong_giveups,      \* pong sends that failed retry_count times
    delivered,         \* datagrams delivered to the control socket so far
    bound_to,          \* the address the control socket is bound to: "none", "exact", "wildcard"
    \* ---- gaze channel
    GAZE_SHARING_ACTIVE,
    network_stats,
    remote_gaze_data,
    gaze_received,     \* the last sample received from the peer (NoMsg before the first)
    grpc,              \* position of the gaze receive thread
    gaze_datagram,     \* the datagram receive_socket.recvfrom returned last (NoMsg before
                       \* the first)
    gaze_calls,        \* calls of send_gaze_data
    gaze_sendto,       \* calls of send_socket.sendto
    gaze_last,         \* the last datagram handed to send_socket.sendto
    \* ---- stage coordinator (locals of run_synchronized_experiment)
    pc,
    message,           \* the message the main loop is processing (NoMsg once its stage is over)
    current_trial, trial_seed, condition_array, target_position, correct_category,
    grid_stimuli,      \* categories of the cells of the grid built last
    image_choice,      \* per process (A: the peer, B: the follower): the salt of the
                       \* interpreter's str hash and the selected_images of the grid it built
    target_square_color,
    client_response, client_rt, first_responder, first_response, response_received,
    trial_score, total_score,
    data_log,
    frames,            \* frames rendered by the running display loop (0 outside one)
    aborted,           \* the operator pressed escape
    local_race,        \* the first responder the response loop decided on last
    updates_sent,      \* response_update messages sent for the trial number of current_trial
    stage,             \* the stage entered last: AwaitStart, GridDisplay, ResponseCollection,
                       \* Feedback, Ended
    saved,             \* what was handed to DataFrame(...).to_csv
    \* ---- the single-player game (MemoryGame, src/single_easy_medium_updated.py)
    condition,         \* the condition run_trial chose
    difficulty,        \* the difficulty run_trial was called with (None before a trial)
    grid_image_indices, \* what _create_grid_from_condition returned last
    \* ---- the network between the initiator and the follower's control socket
    wire,              \* datagrams in flight, in the order they will arrive
    faults             \* drops, duplications, reorderings and strays so far

chanVars == <<message_queue, running, socket, rpc, wpc, wait_type, wmsg, wret,
              ctl_last, ctl_seq, pings, pongs, pong_giveups, delivered, bound_to>>
gazeVars == <<GAZE_SHARING_ACTIVE, network_stats, remote_gaze_data, gaze_received, grpc,
                   gaze_datagram,
              gaze_calls, gaze_sendto,
              gaze_last>>
singleVars == <<condition, difficulty, grid_image_indices>>
gridVars == <<grid_stimuli, image_choice, singleVars>>
trialVars == <<current_trial, trial_seed, condition_array, target_position, correct_category,
               gridVars>>
respVars == <<target_square_color, client_response, client_rt, first_responder,
              first_response, response_received>>
logVars == <<trial_score, total_score, data_log, saved>>
\* what the model remembers of the session beyond the program's own variables
histVars == <<local_race, updates_sent, stage>>
coordVars == <<pc, message, trialVars, respVars, logVars, frames, aborted, histVars>>
netVars == <<wire, faults>>
vars == <<chanVars, gazeVars, coordVars, netVars>>

\* the parts of the channel state an action usually leaves alone
obsVars == <<pings, pongs, pong_giveups, delivered, bound_to>>
recvVars == <<rpc, obsVars>>
waitVars == <<wpc, wait_type, wmsg, wret>>
sendVars == <<ctl_last, ctl_seq>>
netStatVars == <<network_stats, remote_gaze_data, gaze_received, grpc,
                   gaze_datagram, gaze_calls,
                gaze_sendto, gaze_last>>

(***************************************************************************)
(* Datagrams and messages.  A datagram is the JSON text on the wire: an    *)
(* object with type, timestamp and data, or bytes that do not decode.      *)
(***************************************************************************)
Datagram(t, d) == [raw |-> "json", type |-> t, timestamp |-> 0, data |-> d]
Garbage == [raw |-> "garbage"]

\* json.loads(data.decode('utf-8')) followed by the two stamps of the receive loop
JsonLoads(d) ==
    IF d.raw = "json"
    THEN [ok |-> TRUE,
          msg |-> [type |-> d.type, timestamp |-> d.timestamp, data |-> d.data,
                   sender_addr |-> "server", receipt_time |-> 0]]
    ELSE [ok |-> FALSE, msg |-> NoMsg]

\* message.get('type')
TypeOf(m) == Get(m, "type", None)

HasType(q, t) == \E i \in 1..Len(q) : TypeOf(q[i]) = t

(***************************************************************************)
(* RobustSyncClient.send_message.  fails is the number of leading          *)
(* sendto calls that raise; on a closed socket every call raises.  The     *)
(* result records the return value, the sendto calls made and how many of  *)
(* them raised.                                                            *)
(***************************************************************************)
\* a retry loop that would go on after an attempt that raised nothing
SendMessageNoStop(message_type, data, fails) ==
    IF socket = "none"
    THEN [ret |-> FALSE, attempts |-> 0, raised |-> 0, type |-> message_type, data |-> data]
    ELSE LET f == IF socket = "closed" THEN retry_count ELSE fails
         IN  [ret |-> f < retry_count, attempts |-> retry_count, raised |-> f,
              type |-> message_type, data |-> data]

SendMessage(message_type, data, fails) ==
    IF socket = "none"
    THEN [ret |-> FALSE, attempts |-> 0, raised |-> 0, type |-> message_type, data |-> data]
    ELSE LET f == IF socket = "closed" THEN retry_count ELSE fails
         IN  IF f < retry_count
             THEN [ret |-> TRUE, attempts |-> f + 1, raised |-> f, type |-> message_type,
                   data |-> data]
             ELSE [ret |-> FALSE, attempts |-> retry_count, raised |-> retry_count,
                   type |-> message_type, data |-> data]

\* the effect of a send_message call on the record of the channel's output
DoSend(message_type, data, fails) ==
    /\ ctl_last' = SendMessage(message_type, data, fails)
    /\ ctl_seq' = 1 - ctl_seq

SendFailures == 0..retry_count
\* in a session the transport either works or is down for a whole call
TransportStates == {0, retry_count}

(***************************************************************************)
(* RobustSyncClient._receive_messages, the control receive thread.         *)
(***************************************************************************)
\* a receive loop that would enqueue a ping without answering it
RecvDatagramNoPong(d) ==
    /\ rpc = "recv"
    /\ socket = "open"
    /\ LET r == JsonLoads(d)
       IN  IF r.ok
           THEN message_queue' = Append(message_queue, r.msg)
           ELSE UNCHANGED message_queue
    /\ rpc' = "recv"
    /\ UNCHANGED <<running, socket, waitVars, sendVars>>
    /\ UNCHANGED <<gazeVars, coordVars>>

\* a receive loop that acts on the stage messages itself: it clears the sharing
\* flag as soon as stage_response arrives
RecvDatagramActs(d) ==
    /\ rpc = "recv"
    /\ socket = "open"
    /\ LET r == JsonLoads(d)
       IN  IF r.ok
           THEN /\ message_queue' = Append(message_queue, r.msg)
                /\ rpc' = IF TypeOf(r.msg) = "ping" THEN "pong" ELSE "recv"
                /\ GAZE_SHARING_ACTIVE' = IF TypeOf(r.msg) = "stage_response"
                                          THEN FALSE ELSE GAZE_SHARING_ACTIVE
           ELSE UNCHANGED <<message_queue, rpc, GAZE_SHARING_ACTIVE>>
    /\ UNCHANGED <<running, socket, waitVars, sendVars>>
    /\ UNCHANGED <<netStatVars, coordVars>>

\* recvfrom returned datagram d: decode, stamp, enqueue; a ping is answered next
RecvDatagram(d) ==
    /\ rpc = "recv"
    /\ socket = "open"
    /\ LET r == JsonLoads(d)
       IN  IF r.ok
           THEN /\ message_queue' = Append(message_queue, r.msg)
                /\ rpc' = IF TypeOf(r.msg) = "ping" THEN "pong" ELSE "recv"
           ELSE \* json.loads raised: the except branch prints and the loop goes on
                UNCHANGED <<message_queue, rpc>>
    /\ UNCHANGED <<running, socket, waitVars, sendVars>>
    /\ UNCHANGED <<gazeVars, coordVars>>

\* self.send_message('pong', {'client_ready': True})
RecvPong(fails) ==
    /\ rpc = "pong"
    /\ DoSend("pong", [client_ready |-> TRUE], fails)
    /\ rpc' = "recv"
    /\ UNCHANGED <<message_queue, running, socket, waitVars>>
    /\ UNCHANGED <<gazeVars, coordVars>>

\* the loop condition "while self.running" fails after a receive timeout
RecvExit ==
    /\ rpc = "recv"
    /\ ~running
    /\ rpc' = "exited"
    /\ UNCHANGED <<message_queue, running, socket, waitVars, sendVars, obsVars>>
    /\ UNCHANGED <<gazeVars, coordVars>>

(***************************************************************************)
(* RobustSyncClient.wait_for_message, one step per queue operation.        *)
(***************************************************************************)
\* the call: the loop is entered
WaitCall(expected_type) ==
    /\ wpc = "idle"
    /\ wpc' = "get"
    /\ wait_type' = expected_type
    /\ wmsg' = NoMsg
    /\ wret' = NoMsg

\* message_queue.get returned a message: return it or hold it for the put
WaitGet ==
    /\ wpc = "get"
    /\ message_queue # <<>>
    /\ LET m == Head(message_queue)
       IN  /\ message_queue' = Tail(message_queue)
           /\ IF TypeOf(m) = wait_type
              THEN wret' = m /\ wmsg' = NoMsg /\ wpc' = "ret"
              ELSE wret' = NoMsg /\ wmsg' = m /\ wpc' = "put"
    /\ UNCHANGED <<running, socket, recvVars, sendVars, wait_type>>
    /\ UNCHANGED <<gazeVars, coordVars>>
    /\ UNCHANGED netVars

\* a waiter that would discard the message of another type instead of putting it back
WaitPutDrop ==
    /\ wpc = "put"
    /\ message_queue' = message_queue
    /\ wmsg' = NoMsg
    /\ wpc' = "get"
    /\ UNCHANGED <<running, socket, recvVars, sendVars, wait_type, wret>>
    /\ UNCHANGED <<gazeVars, coordVars>>
    /\ UNCHANGED netVars

\* a put that would return the message to the front of the queue
WaitPutFront ==
    /\ wpc = "put"
    /\ message_queue' = <<wmsg>> \o message_queue
    /\ wmsg' = NoMsg
    /\ wpc' = "get"
    /\ UNCHANGED <<running, socket, recvVars, sendVars, wait_type, wret>>
    /\ UNCHANGED <<gazeVars, coordVars>>
    /\ UNCHANGED netVars

\* "Put it back if it's not what we want"
WaitPut ==
    /\ wpc = "put"
    /\ message_queue' = Append(message_queue, wmsg)
    /\ wmsg' = NoMsg
    /\ wpc' = "get"
    /\ UNCHANGED <<running, socket, recvVars, sendVars, wait_type, wret>>
    /\ UNCHANGED <<gazeVars, coordVars>>
    /\ UNCHANGED netVars

\* the deadline passed: return None
WaitTimeout ==
    /\ wpc = "get"
    /\ ~HasType(message_queue, wait_type)
    /\ wret' = NoMsg
    /\ wpc' = "ret"
    /\ UNCHANGED <<message_queue, running, socket, recvVars, sendVars, wait_type, wmsg>>
    /\ UNCHANGED <<gazeVars, coordVars>>
    /\ UNCHANGED netVars

\* RobustSyncClient.get_message: the oldest message is taken off the queue
GetMessage ==
    /\ message_queue # <<>>
    /\ message_queue' = Tail(message_queue)

(***************************************************************************)
(* Gaze channel.                                                           *)
(***************************************************************************)
\* the effect of a call on the gaze channel's state
GazeState(stats, calls, sendto, last) ==
    [stats |-> stats, calls |-> calls, sendto |-> sendto, last |-> last]

\* send_gaze_data as it would be without the test of GAZE_SHARING_ACTIVE
SendGazeDataUngated(gaze_x, gaze_y, valid, ok) ==
    GazeState(IF ok THEN [network_stats EXCEPT !.sent = @ + 1]
                    ELSE [network_stats EXCEPT !.errors = @ + 1],
              gaze_calls + 1,
              gaze_sendto + 1,
              [x |-> gaze_x, y |-> gaze_y, valid |-> valid, timestamp |-> 0,
               computer |-> "B"])

\* send_gaze_data that tries the transmit a second time after an error
SendGazeDataRetry(gaze_x, gaze_y, valid, ok) ==
    IF ~GAZE_SHARING_ACTIVE
    THEN GazeState(network_stats, gaze_calls + 1, gaze_sendto, gaze_last)
    ELSE GazeState(IF ok THEN [network_stats EXCEPT !.sent = @ + 1]
                         ELSE [network_stats EXCEPT !.errors = @ + 1, !.sent = @ + 1],
                   gaze_calls + 1,
                   IF ok THEN gaze_sendto + 1 ELSE gaze_sendto + 2,
                   [x |-> gaze_x, y |-> gaze_y, valid |-> valid, timestamp |-> 0,
                    computer |-> "B"])

\* send_gaze_data(gaze_x, gaze_y, valid); ok: sendto raised nothing
SendGazeData(gaze_x, gaze_y, valid, ok) ==
    IF ~GAZE_SHARING_ACTIVE
    THEN GazeState(network_stats, gaze_calls + 1, gaze_sendto, gaze_last)
    ELSE GazeState(IF ok THEN [network_stats EXCEPT !.sent = @ + 1]
                         ELSE [network_stats EXCEPT !.errors = @ + 1],
                   gaze_calls + 1,
                   gaze_sendto + 1,
                   [x |-> gaze_x, y |-> gaze_y, valid |-> valid, timestamp |-> 0,
                    computer |-> "B"])

\* what el_tracker.getNewestSample() can yield: nothing, a gaze position, missing data
Samples == {"none", "valid", "missing"}

\* update_local_gaze_display()
UpdateLocalGazeDisplay(sample, ok) ==
    IF ~GAZE_SHARING_ACTIVE \/ sample = "none"
    THEN GazeState(network_stats, gaze_calls, gaze_sendto, gaze_last)
    ELSE IF sample = "valid"
         THEN SendGazeData(5, 5, TRUE, ok)
         ELSE SendGazeData(0, 0, FALSE, ok)

ApplyGaze(r) ==
    /\ network_stats' = r.stats
    /\ gaze_calls' = r.calls
    /\ gaze_sendto' = r.sendto
    /\ gaze_last' = r.last

\* a datagram on the gaze port: a JSON object, or bytes that do not decode
GazeDatagram(x, y, valid, timestamp, computer) ==
    [raw |-> "json",
     body |-> [x |-> x, y |-> y, valid |-> valid, timestamp |-> timestamp,
               computer |-> computer]]

\* a receipt that keeps the stored sample when the new one is older
ReceiveGazeDataNewerOnly(d) ==
    IF d.raw = "json"
    THEN IF Get(d.body, "computer", None) = "A"
         THEN [remote |-> IF Get(d.body, "timestamp", 0) >= remote_gaze_data.timestamp
                          THEN Update(remote_gaze_data, d.body)
                          ELSE remote_gaze_data,
               stats |-> [network_stats EXCEPT !.received = @ + 1]]
         ELSE [remote |-> remote_gaze_data, stats |-> network_stats]
    ELSE [remote |-> remote_gaze_data,
          stats |-> [network_stats EXCEPT !.errors = @ + 1]]

\* a receive loop without the test of the origin at line 670
ReceiveGazeDataAnyOrigin(d) ==
    IF d.raw = "json"
    THEN [remote |-> Update(remote_gaze_data, d.body),
          stats |-> [network_stats EXCEPT !.received = @ + 1]]
    ELSE [remote |-> remote_gaze_data,
          stats |-> [network_stats EXCEPT !.errors = @ + 1]]

\* one receipt of receive_gaze_data's loop
ReceiveGazeData(d) ==
    IF d.raw = "json"
    THEN IF Get(d.body, "computer", None) = "A"
         THEN [remote |-> Update(remote_gaze_data, d.body),
               stats |-> [network_stats EXCEPT !.received = @ + 1]]
         ELSE [remote |-> remote_gaze_data, stats |-> network_stats]
    ELSE [remote |-> remote_gaze_data,
          stats |-> [network_stats EXCEPT !.errors = @ + 1]]

(***************************************************************************)
(* create_synchronized_grid(condition_array, seed): the categories of the  *)
(* 64 cells, or an unhandled error (a number outside CATEGORY_MAP, fewer   *)
(* than 64 entries).                                                       *)
(***************************************************************************)
CreateSynchronizedGrid(cond, seed) ==
    IF (\E i \in 1..Len(cond) : cond[i] \notin 0..3) \/ Len(cond) < 64
    THEN [ok |-> FALSE, grid |-> <<>>]
    ELSE [ok |-> TRUE, grid |-> [i \in 1..64 |-> CATEGORY_MAP[cond[i] + 1]]]

\* len(images[category]): load_images fills every category with up to 10 paths
ImagesPerCategory == 10

Processes == {"A", "B"}
HashSalts == 0..MaxSalt

CategoryIndex(category) == CHOOSE i \in 1..Len(CATEGORY_MAP) : CATEGORY_MAP[i] = category

\* hash(category): the hash of a str is keyed by a salt that the interpreter draws
\* when it starts (PYTHONHASHSEED unset); a fixed function of salt and string
HashOf(salt, category) == salt * 7919 + CategoryIndex(category) * 104729

\* random.seed(image_seed); random.randint(0, n - 1): a fixed function of the seed
RandInt(image_seed, n) == ((image_seed * 75 + 74) % 65537) % n

\* selected_images[category] (lines 898-905)
SelectedImage(category, seed, salt) ==
    IF ImagesPerCategory > 0
    THEN RandInt(seed + (HashOf(salt, category) % 10000), ImagesPerCategory)
    ELSE 0

\* the selected_images dictionary: an index for every category of condition_array
SelectedImages(cond, seed, salt) ==
    [category \in {CATEGORY_MAP[cond[i] + 1] : i \in 1..Len(cond)} |->
        SelectedImage(category, seed, salt)]

\* an interpreter with the given salt that has built no grid yet
NoGrid(salt) == [salt |-> salt, created |-> FALSE, selected_images |-> EmptyData]

\* draw_recall_grid(target_position, colour) raises: no target, no grid, no such cell
DrawRecallRaises ==
    \/ target_position = Unbound
    \/ grid_stimuli = <<>>
    \/ target_position >= Len(grid_stimuli)

\* building spatial_info and trial_log raises: cell_size or target_position not bound
TrialLogRaises ==
    \/ grid_stimuli = <<>>
    \/ target_position = Unbound

(***************************************************************************)
(* Datagrams the network can deliver to the follower's control socket.     *)
(***************************************************************************)
Cond1 == [i \in 1..64 |-> (i - 1) % 4]

GridData1 == [trial_number |-> 1, seed |-> 42, condition_array |-> Cond1,
              target_position |-> 6, target_category |-> "house"]

FeedbackData1 == [trial_score |-> 1, total_score |-> 1, first_responder |-> "server",
                  first_response |-> "F", correct_category |-> "house"]

UpdateServer == [responder |-> "server", response |-> "F", rt |-> 1]

\* the datagrams the initiator sends in a session of one trial, in its order
Script ==
    << Datagram("start_experiment", EmptyData),
       Datagram("stage_grid_display", GridData1),
       Datagram("stage_response", EmptyData),
       Datagram("response_update", UpdateServer),
       Datagram("stage_feedback", FeedbackData1),
       Datagram("end_experiment", EmptyData) >>

\* datagrams that reach the socket without being part of the session's script
Strays ==
    { Datagram("stage_grid_display", EmptyData),
      Datagram("ping", EmptyData),
      Datagram("response_update", [responder |-> "client", response |-> "L", rt |-> 1]),
      Garbage }

Keys == {"f", "l", "h", "c"}
\* the keys the follower's participant presses in a session
PressedKeys == {"f", "h"}
KeyUpper == [f |-> "F", l |-> "L", h |-> "H", c |-> "C"]

(***************************************************************************)
(* run_synchronized_experiment, the foreground of the follower.            *)
(***************************************************************************)
\* sync_client.wait_for_message('start_experiment', timeout=60) is called
CallWaitStart ==
    /\ pc = "start"
    /\ WaitCall("start_experiment")
    /\ pc' = "wait_start"
    /\ UNCHANGED <<message_queue, running, socket, recvVars, sendVars>>
    /\ UNCHANGED <<gazeVars, message, trialVars, respVars, logVars, frames, aborted, histVars>>
    /\ UNCHANGED netVars

\* a start handshake without the return at line 1025: the start is acknowledged
\* after the time-out as well
StartReturnNoCheck ==
    /\ pc = "wait_start"
    /\ wpc = "ret"
    /\ pc' = "ack_start"
    /\ wpc' = "idle"
    /\ wait_type' = None
    /\ wret' = NoMsg
    /\ UNCHANGED <<message_queue, running, socket, recvVars, sendVars, wmsg>>
    /\ UNCHANGED <<gazeVars, message, trialVars, respVars, logVars, frames, aborted, histVars>>
    /\ UNCHANGED netVars

\* it returned: without a message the function returns at line 1025 (start_timeout),
\* else the start is acknowledged
StartReturn ==
    /\ pc = "wait_start"
    /\ wpc = "ret"
    /\ pc' = IF wret = NoMsg THEN "start_timeout" ELSE "ack_start"
    /\ wpc' = "idle"
    /\ wait_type' = None
    /\ wret' = NoMsg
    /\ UNCHANGED <<message_queue, running, socket, recvVars, sendVars, wmsg>>
    /\ UNCHANGED <<gazeVars, message, trialVars, respVars, logVars, frames, aborted, histVars>>
    /\ UNCHANGED netVars

\* sync_client.send_message('ack_start', {'client_ready': True})
AckStart(fails) ==
    /\ pc = "ack_start"
    /\ DoSend("ack_start", [client_ready |-> TRUE], fails)
    /\ pc' = "main"
    /\ UNCHANGED <<message_queue, running, socket, recvVars, waitVars>>
    /\ UNCHANGED <<gazeVars, message, trialVars, respVars, logVars, frames, aborted, histVars>>
    /\ UNCHANGED netVars

\* ---- stage 1: grid display
\* the main loop dequeues stage_grid_display and sets the sharing flag
DispatchGridDisplay ==
    /\ pc = "main"
    /\ GetMessage
    /\ message' = Head(message_queue)
    /\ TypeOf(message') = "stage_grid_display"
    /\ GAZE_SHARING_ACTIVE' = TRUE
    /\ pc' = "grid_extract"
    /\ UNCHANGED <<running, socket, recvVars, waitVars, sendVars, netStatVars>>
    /\ UNCHANGED <<trialVars, respVars, logVars, frames, aborted, local_race, updates_sent>>
    /\ stage' = "GridDisplay"
    /\ UNCHANGED netVars

\* parameter extraction in the style of "get(key) or default": a seed of 0 is replaced
GridExtractFalsyDefault ==
    /\ pc = "grid_extract"
    /\ LET trial_data == Get(message, "data", EmptyData)
       IN  /\ current_trial' = Get(trial_data, "trial_number", 0)
           /\ trial_seed' = IF Get(trial_data, "seed", 0) = 0
                             THEN 1 ELSE Get(trial_data, "seed", 0)
           /\ condition_array' = Get(trial_data, "condition_array", <<>>)
           /\ target_position' = Get(trial_data, "target_position", 0)
           /\ correct_category' = Get(trial_data, "target_category", "")
    /\ updates_sent' = IF current_trial' # current_trial THEN 0 ELSE updates_sent
    /\ pc' = "grid_create"
    /\ UNCHANGED <<chanVars, gazeVars, message, gridVars, respVars, logVars, frames,
                   aborted, local_race, stage>>
    /\ UNCHANGED netVars

\* parameter extraction that leaves the trial number for later
GridExtractKeepTrial ==
    /\ pc = "grid_extract"
    /\ LET trial_data == Get(message, "data", EmptyData)
       IN  /\ current_trial' = current_trial
           /\ trial_seed' = Get(trial_data, "seed", 0)
           /\ condition_array' = Get(trial_data, "condition_array", <<>>)
           /\ target_position' = Get(trial_data, "target_position", 0)
           /\ correct_category' = Get(trial_data, "target_category", "")
    /\ updates_sent' = IF current_trial' # current_trial THEN 0 ELSE updates_sent
    /\ pc' = "grid_create"
    /\ UNCHANGED <<chanVars, gazeVars, message, gridVars, respVars, logVars, frames,
                   aborted, local_race, stage>>
    /\ UNCHANGED netVars

\* the trial parameters are read from the message
GridExtract ==
    /\ pc = "grid_extract"
    /\ LET trial_data == Get(message, "data", EmptyData)
       IN  /\ current_trial' = Get(trial_data, "trial_number", 0)
           /\ trial_seed' = Get(trial_data, "seed", 0)
           /\ condition_array' = Get(trial_data, "condition_array", <<>>)
           /\ target_position' = Get(trial_data, "target_position", 0)
           /\ correct_category' = Get(trial_data, "target_category", "")
    /\ updates_sent' = IF current_trial' # current_trial THEN 0 ELSE updates_sent
    /\ pc' = "grid_create"
    /\ UNCHANGED <<chanVars, gazeVars, message, gridVars, respVars, logVars, frames,
                   aborted, local_race, stage>>
    /\ UNCHANGED netVars

\* the stage as it would run if the grid were not built before the acknowledgement
GridCreateSkipped ==
    /\ pc = "grid_create"
    /\ pc' = "grid_ack"
    /\ UNCHANGED <<chanVars, gazeVars, message, trialVars, respVars, logVars, frames, aborted,
                   histVars>>
    /\ UNCHANGED netVars

\* create_synchronized_grid(condition_array, trial_seed)
GridCreate ==
    /\ pc = "grid_create"
    /\ LET g == CreateSynchronizedGrid(condition_array, trial_seed)
       IN  /\ grid_stimuli' = g.grid
           /\ image_choice' =
                 IF g.ok
                 THEN [image_choice EXCEPT
                         !.B = [@ EXCEPT !.created = TRUE,
                                         !.selected_images =
                                             SelectedImages(condition_array, trial_seed,
                                                            image_choice.B.salt)]]
                 ELSE image_choice
           /\ UNCHANGED singleVars
           /\ pc' = IF g.ok THEN "grid_ack" ELSE "crashed"
    /\ UNCHANGED <<chanVars, gazeVars, message, current_trial, trial_seed, condition_array,
                   target_position, correct_category, respVars, logVars, frames, aborted,
                   histVars>>
    /\ UNCHANGED netVars

\* sync_client.send_message('stage_sync_ack', {'ready': True}); the stage clock starts
GridAck(fails) ==
    /\ pc = "grid_ack"
    /\ DoSend("stage_sync_ack", [ready |-> TRUE], fails)
    /\ frames' = 0
    /\ pc' = "grid_loop"
    /\ UNCHANGED <<message_queue, running, socket, recvVars, waitVars>>
    /\ UNCHANGED <<gazeVars, message, trialVars, respVars, logVars, aborted, histVars>>
    /\ UNCHANGED netVars

\* the tracker yields a sample only while the session's supply lasts
SampleAllowed(sample) == sample = "none" \/ gaze_calls < MaxGazeSends

\* one frame of the display loop, no escape key
GridFrame(sample, ok) ==
    /\ pc = "grid_loop"
    /\ frames < MaxFrames
    /\ SampleAllowed(sample)
    /\ ApplyGaze(UpdateLocalGazeDisplay(sample, ok))
    /\ frames' = frames + 1
    /\ UNCHANGED <<chanVars, GAZE_SHARING_ACTIVE, remote_gaze_data, gaze_received, grpc,
                   gaze_datagram>>
    /\ UNCHANGED <<pc, message, trialVars, respVars, logVars, aborted, histVars>>
    /\ UNCHANGED netVars

\* the escape branch of the display loop without line 1100
GridEscapeKeepSharing(sample, ok) ==
    /\ pc = "grid_loop"
    /\ frames < MaxFrames
    /\ SampleAllowed(sample)
    /\ ApplyGaze(UpdateLocalGazeDisplay(sample, ok))
    /\ frames' = 0
    /\ aborted' = TRUE
    /\ pc' = "abort_send"
    /\ UNCHANGED <<chanVars, GAZE_SHARING_ACTIVE, remote_gaze_data, gaze_received, grpc,
                   gaze_datagram>>
    /\ UNCHANGED <<message, trialVars, respVars, logVars, histVars>>
    /\ UNCHANGED netVars

\* one frame of the display loop at whose end escape is found
GridEscape(sample, ok) ==
    /\ pc = "grid_loop"
    /\ frames < MaxFrames
    /\ SampleAllowed(sample)
    /\ ApplyGaze(UpdateLocalGazeDisplay(sample, ok))
    /\ frames' = 0
    /\ GAZE_SHARING_ACTIVE' = FALSE
    /\ aborted' = TRUE
    /\ pc' = "abort_send"
    /\ UNCHANGED <<chanVars, remote_gaze_data, gaze_received, grpc,
                   gaze_datagram>>
    /\ UNCHANGED <<message, trialVars, respVars, logVars, histVars>>
    /\ UNCHANGED netVars

\* the end of the display duration without line 1105
GridExitKeepSharing ==
    /\ pc = "grid_loop"
    /\ frames >= 1
    /\ pc' = "main"
    /\ frames' = 0
    /\ message' = NoMsg
    /\ UNCHANGED <<chanVars, gazeVars>>
    /\ UNCHANGED <<trialVars, respVars, logVars, aborted, histVars>>
    /\ UNCHANGED netVars

\* the display duration has elapsed
GridExit ==
    /\ pc = "grid_loop"
    /\ frames >= 1
    /\ GAZE_SHARING_ACTIVE' = FALSE
    /\ pc' = "main"
    /\ frames' = 0
    /\ message' = NoMsg
    /\ UNCHANGED <<chanVars, netStatVars>>
    /\ UNCHANGED <<trialVars, respVars, logVars, aborted, histVars>>
    /\ UNCHANGED netVars

\* ---- stage 2: response collection
\* the main loop dequeues stage_response: flag off, colour reset
DispatchResponse ==
    /\ pc = "main"
    /\ GetMessage
    /\ message' = Head(message_queue)
    /\ TypeOf(message') = "stage_response"
    /\ GAZE_SHARING_ACTIVE' = FALSE
    /\ target_square_color' = "red"
    /\ pc' = "resp_ack"
    /\ UNCHANGED <<running, socket, recvVars, waitVars, sendVars, netStatVars>>
    /\ UNCHANGED <<trialVars, client_response, client_rt, first_responder, first_response,
                   response_received, logVars, frames, aborted, local_race, updates_sent>>
    /\ stage' = "ResponseCollection"
    /\ UNCHANGED netVars

\* the stage is acknowledged and the response slots are re-armed
RespAck(fails) ==
    /\ pc = "resp_ack"
    /\ DoSend("stage_sync_ack", [ready |-> TRUE], fails)
    /\ client_response' = None
    /\ client_rt' = NoneNum
    /\ first_responder' = None
    /\ first_response' = None
    /\ response_received' = [server |-> FALSE, client |-> FALSE]
    /\ pc' = "resp_loop"
    /\ UNCHANGED <<message_queue, running, socket, recvVars, waitVars>>
    /\ UNCHANGED <<gazeVars, message, trialVars, target_square_color, logVars, frames,
                   aborted, histVars>>
    /\ UNCHANGED netVars

RespLoopRuns == ~(response_received.server /\ response_received.client)

\* the local response as it would be taken without "if first_responder is None"
FirstLocalAlways(key) ==
    [responder |-> "client", response |-> KeyUpper[key], color |-> "green"]

\* the first local response: "if first_responder is None"
FirstLocal(key) ==
    IF first_responder = None
    THEN [responder |-> "client", response |-> KeyUpper[key], color |-> "green"]
    ELSE [responder |-> first_responder, response |-> first_response,
          color |-> target_square_color]

\* the first remote response: "if first_responder is None"
FirstRemote(resp_data) ==
    IF first_responder = None
    THEN [responder |-> "server", response |-> Get(resp_data, "response", None),
          color |-> "green"]
    ELSE [responder |-> first_responder, response |-> first_response,
          color |-> target_square_color]

\* draw_recall_grid raises in the first iteration
RespDrawRaises ==
    /\ pc = "resp_loop"
    /\ RespLoopRuns
    /\ DrawRecallRaises
    /\ pc' = "crashed"
    /\ UNCHANGED <<chanVars, gazeVars>>
    /\ UNCHANGED <<message, trialVars, respVars, logVars, frames, aborted, histVars>>
    /\ UNCHANGED netVars

\* an iteration in which the follower's participant presses a response key
RespKey(key, fails) ==
    /\ pc = "resp_loop"
    /\ RespLoopRuns
    /\ ~DrawRecallRaises
    /\ ~response_received.client
    /\ client_response' = KeyUpper[key]
    /\ client_rt' = 1
    /\ response_received' = [response_received EXCEPT !.client = TRUE]
    /\ LET f == FirstLocal(key)
       IN  /\ first_responder' = f.responder
           /\ first_response' = f.response
           /\ target_square_color' = f.color
           /\ local_race' = [responder |-> f.responder, response |-> f.response]
    /\ DoSend("response_update",
              [responder |-> "client", response |-> KeyUpper[key], rt |-> 1], fails)
    /\ updates_sent' = IF ctl_last'.ret THEN updates_sent + 1 ELSE updates_sent
    /\ WaitCall("response_update")
    /\ pc' = "resp_wait"
    /\ UNCHANGED <<message_queue, running, socket, recvVars>>
    /\ UNCHANGED <<gazeVars, message, trialVars, logVars, frames, aborted, stage>>
    /\ UNCHANGED netVars

\* an iteration without a key, or with response keys after the follower has responded
RespNoKey ==
    /\ pc = "resp_loop"
    /\ RespLoopRuns
    /\ ~DrawRecallRaises
    /\ WaitCall("response_update")
    /\ pc' = "resp_wait"
    /\ UNCHANGED <<message_queue, running, socket, recvVars, sendVars>>
    /\ UNCHANGED <<gazeVars, message, trialVars, respVars, logVars, frames, aborted, histVars>>
    /\ UNCHANGED netVars

\* an iteration in which escape is found, before or after the follower's own response
RespEscape ==
    /\ pc = "resp_loop"
    /\ RespLoopRuns
    /\ ~DrawRecallRaises
    /\ GAZE_SHARING_ACTIVE' = FALSE
    /\ aborted' = TRUE
    /\ pc' = "abort_send"
    /\ UNCHANGED <<chanVars, netStatVars>>
    /\ UNCHANGED <<message, trialVars, respVars, logVars, frames, histVars>>
    /\ UNCHANGED netVars

\* the response loop's receive that takes any response_update for the peer's
RespWaitReturnAnyResponder ==
    /\ pc = "resp_wait"
    /\ wpc = "ret"
    /\ wpc' = "idle"
    /\ wait_type' = None
    /\ wret' = NoMsg
    /\ LET resp_data == Get(wret, "data", EmptyData)
       IN  IF /\ wret # NoMsg
              /\ TypeOf(wret) = "response_update"
              /\ ~response_received.server
           THEN /\ response_received' = [response_received EXCEPT !.server = TRUE]
                /\ LET f == FirstRemote(resp_data)
                   IN  /\ first_responder' = f.responder
                       /\ first_response' = f.response
                       /\ target_square_color' = f.color
                       /\ local_race' = [responder |-> f.responder, response |-> f.response]
           ELSE UNCHANGED <<response_received, first_responder, first_response,
                            target_square_color, local_race>>
    /\ pc' = "resp_loop"
    /\ UNCHANGED <<message_queue, running, socket, recvVars, sendVars, wmsg>>
    /\ UNCHANGED <<gazeVars, message, trialVars, client_response, client_rt, logVars,
                   frames, aborted, updates_sent, stage>>
    /\ UNCHANGED netVars

\* wait_for_message('response_update', timeout=0.1) returned
RespWaitReturn ==
    /\ pc = "resp_wait"
    /\ wpc = "ret"
    /\ wpc' = "idle"
    /\ wait_type' = None
    /\ wret' = NoMsg
    /\ LET resp_data == Get(wret, "data", EmptyData)
       IN  IF /\ wret # NoMsg
              /\ TypeOf(wret) = "response_update"
              /\ Get(resp_data, "responder", None) = "server"
              /\ ~response_received.server
           THEN /\ response_received' = [response_received EXCEPT !.server = TRUE]
                /\ LET f == FirstRemote(resp_data)
                   IN  /\ first_responder' = f.responder
                       /\ first_response' = f.response
                       /\ target_square_color' = f.color
                       /\ local_race' = [responder |-> f.responder, response |-> f.response]
           ELSE UNCHANGED <<response_received, first_responder, first_response,
                            target_square_color, local_race>>
    /\ pc' = "resp_loop"
    /\ UNCHANGED <<message_queue, running, socket, recvVars, sendVars, wmsg>>
    /\ UNCHANGED <<gazeVars, message, trialVars, client_response, client_rt, logVars,
                   frames, aborted, updates_sent, stage>>
    /\ UNCHANGED netVars

\* both responses are in: the loop ends
RespExit ==
    /\ pc = "resp_loop"
    /\ ~RespLoopRuns
    /\ GAZE_SHARING_ACTIVE' = FALSE
    /\ pc' = "main"
    /\ message' = NoMsg
    /\ UNCHANGED <<chanVars, netStatVars>>
    /\ UNCHANGED <<trialVars, respVars, logVars, frames, aborted, histVars>>
    /\ UNCHANGED netVars

\* ---- stage 3: feedback
\* a reading of the payload that would keep the outcome of the local race
ExtractFeedbackKeepLocal(feedback_data) ==
    [trial_score |-> Get(feedback_data, "trial_score", 0),
     total_score |-> Get(feedback_data, "total_score", 0),
     first_responder |-> first_responder,
     first_response |-> first_response,
     correct_category |-> Get(feedback_data, "correct_category", "")]

\* the values read from the stage_feedback payload
ExtractFeedback(feedback_data) ==
    [trial_score |-> Get(feedback_data, "trial_score", 0),
     total_score |-> Get(feedback_data, "total_score", 0),
     first_responder |-> Get(feedback_data, "first_responder", ""),
     first_response |-> Get(feedback_data, "first_response", ""),
     correct_category |-> Get(feedback_data, "correct_category", "")]

\* the main loop dequeues stage_feedback: flag off, payload read
DispatchFeedback ==
    /\ pc = "main"
    /\ GetMessage
    /\ message' = Head(message_queue)
    /\ TypeOf(message') = "stage_feedback"
    /\ GAZE_SHARING_ACTIVE' = FALSE
    /\ LET f == ExtractFeedback(Get(message', "data", EmptyData))
       IN  /\ trial_score' = f.trial_score
           /\ total_score' = f.total_score
           /\ first_responder' = f.first_responder
           /\ first_response' = f.first_response
           /\ correct_category' = f.correct_category
    /\ pc' = "fb_ack"
    /\ UNCHANGED <<running, socket, recvVars, waitVars, sendVars, netStatVars>>
    /\ UNCHANGED <<current_trial, trial_seed, condition_array, target_position, gridVars,
                   target_square_color, client_response, client_rt, response_received,
                   data_log, saved, frames, aborted, local_race, updates_sent>>
    /\ stage' = "Feedback"
    /\ UNCHANGED netVars

\* the stage is acknowledged; the feedback clock starts
FeedbackAck(fails) ==
    /\ pc = "fb_ack"
    /\ DoSend("stage_sync_ack", [ready |-> TRUE], fails)
    /\ frames' = 0
    /\ pc' = "fb_loop"
    /\ UNCHANGED <<message_queue, running, socket, recvVars, waitVars>>
    /\ UNCHANGED <<gazeVars, message, trialVars, respVars, logVars, aborted, histVars>>
    /\ UNCHANGED netVars

\* one frame of the feedback display
FeedbackFrame ==
    /\ pc = "fb_loop"
    /\ frames < MaxFrames
    /\ frames' = frames + 1
    /\ UNCHANGED <<chanVars, gazeVars>>
    /\ UNCHANGED <<pc, message, trialVars, respVars, logVars, aborted, histVars>>
    /\ UNCHANGED netVars

\* the record appended for the trial
TrialLog ==
    [trial |-> current_trial,
     target_position |-> target_position,
     correct_category |-> correct_category,
     client_response |-> client_response,
     client_rt |-> client_rt,
     first_responder |-> first_responder,
     first_response |-> first_response,
     trial_score |-> trial_score,
     total_score |-> total_score]

\* the feedback duration has elapsed: flag off, the trial is logged
FeedbackLog ==
    /\ pc = "fb_loop"
    /\ frames >= 1
    /\ GAZE_SHARING_ACTIVE' = FALSE
    /\ frames' = 0
    /\ message' = NoMsg
    /\ IF TrialLogRaises
       THEN pc' = "crashed" /\ data_log' = data_log
       ELSE pc' = "main" /\ data_log' = Append(data_log, TrialLog)
    /\ UNCHANGED <<chanVars, netStatVars>>
    /\ UNCHANGED <<trialVars, respVars, trial_score, total_score, saved, 
                   aborted, histVars>>
    /\ UNCHANGED netVars

\* ---- the end of the session
\* the main loop dequeues end_experiment and leaves the loop
DispatchEnd ==
    /\ pc = "main"
    /\ GetMessage
    /\ message' = NoMsg
    /\ TypeOf(Head(message_queue)) = "end_experiment"
    /\ pc' = "save"
    /\ UNCHANGED <<running, socket, recvVars, waitVars, sendVars>>
    /\ UNCHANGED <<gazeVars, trialVars, respVars, logVars, frames, aborted, local_race,
                   updates_sent>>
    /\ stage' = "Ended"
    /\ UNCHANGED netVars

\* the main loop dequeues a message of a type it has no branch for
DispatchOther ==
    /\ pc = "main"
    /\ GetMessage
    /\ message' = NoMsg
    /\ TypeOf(Head(message_queue)) \notin {"stage_grid_display", "stage_response", "stage_feedback",
                                "end_experiment"}
    /\ pc' = "main"
    /\ UNCHANGED <<running, socket, recvVars, waitVars, sendVars>>
    /\ UNCHANGED <<gazeVars, trialVars, respVars, logVars, frames, aborted, histVars>>
    /\ UNCHANGED netVars

\* an abort that would go to terminate_task without the send
AbortSendSkipped(fails) ==
    /\ pc = "abort_send"
    /\ pc' = "terminate"
    /\ UNCHANGED <<chanVars, gazeVars>>
    /\ UNCHANGED <<message, trialVars, respVars, logVars, frames, aborted, histVars>>
    /\ UNCHANGED netVars

\* after escape: sync_client.send_message('end_experiment')
AbortSend(fails) ==
    /\ pc = "abort_send"
    /\ DoSend("end_experiment", EmptyData, fails)
    /\ pc' = "terminate"
    /\ UNCHANGED <<message_queue, running, socket, recvVars, waitVars>>
    /\ UNCHANGED <<gazeVars, message, trialVars, respVars, logVars, frames, aborted, histVars>>
    /\ UNCHANGED netVars

\* terminate_task(): its first statement reads trial_results, a name nothing defines
TerminateTask ==
    /\ pc = "terminate"
    /\ pc' = "crashed"
    /\ UNCHANGED <<chanVars, gazeVars>>
    /\ UNCHANGED <<message, trialVars, respVars, logVars, frames, aborted, histVars>>
    /\ UNCHANGED netVars

\* pd.DataFrame(data_log).to_csv(filename)
SaveData ==
    /\ pc = "save"
    /\ saved' = data_log
    /\ pc' = "close"
    /\ UNCHANGED <<chanVars, gazeVars>>
    /\ UNCHANGED <<message, trialVars, respVars, trial_score, total_score, data_log, frames,
                   aborted, histVars>>
    /\ UNCHANGED netVars

\* RobustSyncClient.close: the flag is cleared
Close ==
    /\ pc = "close"
    /\ running' = FALSE
    /\ pc' = "join"
    /\ UNCHANGED <<message_queue, socket, recvVars, waitVars, sendVars>>
    /\ UNCHANGED <<gazeVars, message, trialVars, respVars, logVars, frames, aborted, histVars>>
    /\ UNCHANGED netVars

\* RobustSyncClient.close: the thread is joined and the socket closed
CloseJoin ==
    /\ pc = "join"
    /\ rpc = "exited"
    /\ socket' = "closed"
    /\ pc' = "done"
    /\ UNCHANGED <<message_queue, running, recvVars, waitVars, sendVars>>
    /\ UNCHANGED <<gazeVars, message, trialVars, respVars, logVars, frames, aborted, histVars>>
    /\ UNCHANGED netVars

(***************************************************************************)
(* The follower: Init is the state after sync_client.start_client().       *)
(***************************************************************************)
NoSend == [ret |-> FALSE, attempts |-> 0, raised |-> 0, type |-> None, data |-> EmptyData]

InitChan ==
    /\ message_queue = <<>>
    /\ running = TRUE
    /\ socket = "open"
    /\ rpc = "recv"
    /\ wpc = "idle"
    /\ wait_type = None
    /\ wmsg = NoMsg
    /\ wret = NoMsg
    /\ ctl_last = NoSend
    /\ ctl_seq = 0
    /\ pings = 0
    /\ pongs = 0
    /\ pong_giveups = 0
    /\ delivered = 0
    /\ bound_to = "exact"

InitGaze ==
    /\ GAZE_SHARING_ACTIVE = FALSE
    /\ network_stats = [sent |-> 0, received |-> 0, errors |-> 0]
    /\ remote_gaze_data = [x |-> 0, y |-> 0, valid |-> FALSE, timestamp |-> 0]
    /\ gaze_received = NoMsg
    /\ grpc = "recv"
    /\ gaze_datagram = NoMsg
    /\ gaze_calls = 0
    /\ gaze_sendto = 0
    /\ gaze_last = NoMsg

InitLocals ==
    /\ message = NoMsg
    /\ current_trial = 0
    /\ trial_seed = 0
    /\ condition_array = <<>>
    /\ target_position = Unbound
    /\ correct_category = ""
    /\ grid_stimuli = <<>>
    /\ condition = <<>>
    /\ difficulty = None
    /\ grid_image_indices = <<>>
    /\ target_square_color = "red"
    /\ client_response = None
    /\ client_rt = NoneNum
    /\ first_responder = None
    /\ first_response = None
    /\ response_received = [server |-> FALSE, client |-> FALSE]
    /\ trial_score = 0
    /\ total_score = 0
    /\ data_log = <<>>
    /\ frames = 0
    /\ aborted = FALSE
    /\ local_race = [responder |-> None, response |-> None]
    /\ updates_sent = 0
    /\ stage = "AwaitStart"
    /\ saved = <<>>

\* the sessions of the other specifications run in interpreters whose salt is 0
InitCoord ==
    /\ InitLocals
    /\ image_choice = [p \in Processes |-> NoGrid(0)]

Init ==
    /\ InitChan /\ InitGaze /\ InitCoord
    /\ pc = "start"
    /\ wire = Script
    /\ faults = 0

\* the process exists: the function has neither returned nor died of an error
\* the process exists: the function has not returned and no error has ended it
Alive == pc \notin {"done", "crashed", "start_timeout"}

\* the network delivers the next datagram
NetNext ==
    /\ Alive
    /\ wire # <<>>
    /\ Len(message_queue) < MaxQueue
    /\ RecvDatagram(Head(wire))
    /\ wire' = Tail(wire)
    /\ UNCHANGED <<obsVars, faults>>

\* the network delivers a copy of the next datagram
NetDuplicate ==
    /\ Alive
    /\ faults < MaxFaults
    /\ wire # <<>>
    /\ Len(message_queue) < MaxQueue
    /\ RecvDatagram(Head(wire))
    /\ faults' = faults + 1
    /\ UNCHANGED <<obsVars, wire>>

\* the network loses the next datagram
NetDrop ==
    /\ Alive
    /\ faults < MaxFaults
    /\ wire # <<>>
    /\ wire' = Tail(wire)
    /\ faults' = faults + 1
    /\ UNCHANGED <<chanVars, gazeVars, coordVars>>

\* the network lets the datagram after the next overtake it
NetReorder ==
    /\ Alive
    /\ faults < MaxFaults
    /\ Len(wire) >= 2
    /\ wire' = <<wire[2], wire[1]>> \o SubSeq(wire, 3, Len(wire))
    /\ faults' = faults + 1
    /\ UNCHANGED <<chanVars, gazeVars, coordVars>>

\* a datagram that is no part of the script arrives
NetStray(d) ==
    /\ Alive
    /\ faults < MaxFaults
    /\ Len(message_queue) < MaxQueue
    /\ RecvDatagram(d)
    /\ faults' = faults + 1
    /\ UNCHANGED <<obsVars, wire>>

NetPong(fails) == Alive /\ RecvPong(fails) /\ UNCHANGED <<obsVars, netVars>>

NetExit == Alive /\ RecvExit /\ UNCHANGED netVars

Next ==
    \/ NetNext
    \/ NetDuplicate
    \/ NetDrop
    \/ NetReorder
    \/ \E d \in Strays : NetStray(d)
    \/ \E fails \in TransportStates : NetPong(fails)
    \/ NetExit
    \/ WaitGet
    \/ WaitPut
    \/ WaitTimeout
    \/ CallWaitStart
    \/ StartReturn
    \/ \E fails \in TransportStates : AckStart(fails)
    \/ DispatchGridDisplay
    \/ GridExtract
    \/ GridCreate
    \/ \E fails \in TransportStates : GridAck(fails)
    \/ \E sample \in Samples, ok \in BOOLEAN : GridFrame(sample, ok)
    \/ \E sample \in Samples, ok \in BOOLEAN : GridEscape(sample, ok)
    \/ GridExit
    \/ DispatchResponse
    \/ \E fails \in TransportStates : RespAck(fails)
    \/ RespDrawRaises
    \/ \E key \in PressedKeys, fails \in SendFailures : RespKey(key, fails)
    \/ RespNoKey
    \/ RespEscape
    \/ RespWaitReturn
    \/ RespExit
    \/ DispatchFeedback
    \/ \E fails \in TransportStates : FeedbackAck(fails)
    \/ FeedbackFrame
    \/ FeedbackLog
    \/ DispatchEnd
    \/ DispatchOther
    \/ \E fails \in TransportStates : AbortSend(fails)
    \/ TerminateTask
    \/ SaveData
    \/ Close
    \/ CloseJoin

Spec == Init /\ [][Next]_vars

\* the steps the process takes by itself: no datagram has to arrive and nobody
\* has to press a key for them
FollowerStep ==
    \/ \E fails \in TransportStates : NetPong(fails)
    \/ NetExit
    \/ WaitGet
    \/ WaitPut
    \/ WaitTimeout
    \/ CallWaitStart
    \/ StartReturn
    \/ \E fails \in TransportStates : AckStart(fails)
    \/ DispatchGridDisplay
    \/ GridExtract
    \/ GridCreate
    \/ \E fails \in TransportStates : GridAck(fails)
    \/ \E sample \in Samples, ok \in BOOLEAN : GridFrame(sample, ok)
    \/ GridExit
    \/ DispatchResponse
    \/ \E fails \in TransportStates : RespAck(fails)
    \/ RespDrawRaises
    \/ RespNoKey
    \/ RespWaitReturn
    \/ RespExit
    \/ DispatchFeedback
    \/ \E fails \in TransportStates : FeedbackAck(fails)
    \/ FeedbackFrame
    \/ FeedbackLog
    \/ DispatchEnd
    \/ DispatchOther
    \/ \E fails \in TransportStates : AbortSend(fails)
    \/ TerminateTask
    \/ SaveData
    \/ Close
    \/ CloseJoin

\* the follower with its threads scheduled again and again and its deadlines
\* passing; the network and the people at the keyboards are under no obligation
FairSpec ==
    /\ Spec
    /\ WF_vars(FollowerStep)
    /\ SF_vars(WaitTimeout)

(***************************************************************************)
(* SpecGaze: the gaze channel under an arbitrary caller.                   *)
(***************************************************************************)
GazeDatagrams ==
    { GazeDatagram(1, 2, TRUE, 10, "A"),
      GazeDatagram(3, 4, FALSE, 5, "A"),
      GazeDatagram(7, 7, TRUE, 20, "B"),
      Garbage }

\* an assignment to GAZE_SHARING_ACTIVE
SetSharing(active) ==
    /\ pc = "gaze"
    /\ GAZE_SHARING_ACTIVE # active
    /\ GAZE_SHARING_ACTIVE' = active
    /\ UNCHANGED <<chanVars, netStatVars, coordVars, netVars>>

\* a call of send_gaze_data
CallSendGazeData(x, y, valid, ok) ==
    /\ pc = "gaze"
    /\ gaze_calls < MaxGazeEvents
    /\ ApplyGaze(SendGazeData(x, y, valid, ok))
    /\ UNCHANGED <<chanVars, GAZE_SHARING_ACTIVE, remote_gaze_data, gaze_received, grpc,
                   gaze_datagram,
                   coordVars, netVars>>

\* a call of update_local_gaze_display
CallUpdateLocalGazeDisplay(sample, ok) ==
    /\ pc = "gaze"
    /\ gaze_calls < MaxGazeEvents
    /\ sample # "none"
    /\ GAZE_SHARING_ACTIVE
    /\ ApplyGaze(UpdateLocalGazeDisplay(sample, ok))
    /\ UNCHANGED <<chanVars, GAZE_SHARING_ACTIVE, remote_gaze_data, gaze_received, grpc,
                   gaze_datagram,
                   coordVars, netVars>>

\* the gaze receive thread gets a datagram
GazeLoopStep(d) ==
    /\ grpc = "recv"
    /\ network_stats.received + network_stats.errors < MaxGazeEvents
    /\ LET r == ReceiveGazeData(d)
       IN  /\ remote_gaze_data' = r.remote
           /\ network_stats' = r.stats
    /\ gaze_received' = IF d.raw = "json" /\ Get(d.body, "computer", None) = "A"
                        THEN d.body ELSE gaze_received
    /\ gaze_datagram' = d
    /\ UNCHANGED <<chanVars, grpc, GAZE_SHARING_ACTIVE, gaze_calls, gaze_sendto, gaze_last,
                   coordVars, netVars>>

\* the gaze receive thread beside an arbitrary caller
GazeReceive(d) == pc = "gaze" /\ GazeLoopStep(d)

InitGazeSpec ==
    /\ InitChan /\ InitGaze /\ InitCoord
    /\ pc = "gaze"
    /\ wire = <<>>
    /\ faults = 0

NextGaze ==
    \/ \E active \in BOOLEAN : SetSharing(active)
    \/ \E valid \in BOOLEAN, ok \in BOOLEAN : CallSendGazeData(5, 5, valid, ok)
    \/ \E sample \in Samples, ok \in BOOLEAN : CallUpdateLocalGazeDisplay(sample, ok)
    \/ \E d \in GazeDatagrams : GazeReceive(d)

SpecGaze == InitGazeSpec /\ [][NextGaze]_vars

(***************************************************************************)
(* SpecChan: the control channel under an arbitrary caller.                *)
(***************************************************************************)
ChanDatagrams ==
    { Datagram("start_experiment", EmptyData),
      Datagram("response_update", UpdateServer),
      Datagram("response_update", [responder |-> "server", response |-> "L", rt |-> 2]),
      Datagram("ping", EmptyData),
      Garbage }

ChanTypes == {"start_experiment", "response_update"}

\* recvfrom returns a datagram
ChanDeliver(d) ==
    /\ delivered < MaxDeliveries
    /\ RecvDatagram(d)
    /\ delivered' = delivered + 1
    /\ pings' = IF JsonLoads(d).ok /\ TypeOf(JsonLoads(d).msg) = "ping" THEN pings + 1 ELSE pings
    /\ UNCHANGED <<pongs, pong_giveups, bound_to, netVars>>

\* the receive thread answers a ping
ChanPong(fails) ==
    /\ RecvPong(fails)
    /\ pongs' = IF ctl_last'.ret THEN pongs + 1 ELSE pongs
    /\ pong_giveups' = IF ctl_last'.ret THEN pong_giveups ELSE pong_giveups + 1
    /\ UNCHANGED <<pings, delivered, bound_to, netVars>>

ChanExit == RecvExit /\ UNCHANGED netVars

\* the caller calls wait_for_message(expected_type)
ApiWait(expected_type) ==
    /\ pc = "api"
    /\ WaitCall(expected_type)
    /\ pc' = "api_wait"
    /\ UNCHANGED <<message_queue, running, socket, recvVars, sendVars>>
    /\ UNCHANGED <<gazeVars, message, trialVars, respVars, logVars, frames, aborted, histVars>>
    /\ UNCHANGED netVars

\* wait_for_message has returned; the caller takes the result
ApiWaitReturn ==
    /\ pc = "api_wait"
    /\ wpc = "ret"
    /\ message' = wret
    /\ wpc' = "idle"
    /\ wait_type' = None
    /\ wret' = NoMsg
    /\ pc' = "api"
    /\ UNCHANGED <<message_queue, running, socket, recvVars, sendVars, wmsg>>
    /\ UNCHANGED <<gazeVars, trialVars, respVars, logVars, frames, aborted, histVars>>
    /\ UNCHANGED netVars

\* the caller calls get_message and gets a message
ApiGet ==
    /\ pc = "api"
    /\ GetMessage
    /\ message' = Head(message_queue)
    /\ UNCHANGED <<running, socket, recvVars, waitVars, sendVars>>
    /\ UNCHANGED <<gazeVars, pc, trialVars, respVars, logVars, frames, aborted, histVars>>
    /\ UNCHANGED netVars

\* the caller calls send_message
ApiSend(message_type, fails) ==
    /\ pc \in {"new", "api"}
    /\ DoSend(message_type, EmptyData, fails)
    /\ UNCHANGED <<message_queue, running, socket, recvVars, waitVars>>
    /\ UNCHANGED <<gazeVars, coordVars, netVars>>

\* the caller calls close
ApiClose ==
    /\ pc = "api"
    /\ pc' = "close"
    /\ UNCHANGED <<chanVars, gazeVars, netVars>>
    /\ UNCHANGED <<message, trialVars, respVars, logVars, frames, aborted, histVars>>

\* the client after __init__: no socket, not running, no thread
InitNewClient ==
    /\ message_queue = <<>>
    /\ running = FALSE
    /\ socket = "none"
    /\ rpc = "unstarted"
    /\ wpc = "idle"
    /\ wait_type = None
    /\ wmsg = NoMsg
    /\ wret = NoMsg
    /\ ctl_last = NoSend
    /\ ctl_seq = 0
    /\ pings = 0
    /\ pongs = 0
    /\ pong_giveups = 0
    /\ delivered = 0
    /\ bound_to = "none"

\* the state start_client leaves behind when a bind succeeded
Started(address) ==
    /\ socket' = "open"
    /\ bound_to' = address
    /\ running' = TRUE
    /\ rpc' = "recv"
    /\ pc' = "api"

\* a fallback that would bind the wildcard address and start nothing
StartClientHalfFallback(exact_ok, wildcard_ok) ==
    /\ pc = "new"
    /\ IF exact_ok
       THEN Started("exact")
       ELSE IF wildcard_ok
            THEN /\ socket' = "open"
                 /\ bound_to' = "wildcard"
                 /\ running' = FALSE
                 /\ rpc' = "unstarted"
                 /\ pc' = "api"
            ELSE /\ socket' = "open"
                 /\ bound_to' = "none"
                 /\ running' = FALSE
                 /\ rpc' = "unstarted"
                 /\ pc' = "crashed"
    /\ UNCHANGED <<message_queue, waitVars, sendVars, pings, pongs, pong_giveups, delivered>>
    /\ UNCHANGED <<gazeVars, netVars>>
    /\ UNCHANGED <<message, trialVars, respVars, logVars, frames, aborted, histVars>>

\* start_client(): bind to client_ip, on OSError to 0.0.0.0; a second OSError propagates
StartClient(exact_ok, wildcard_ok) ==
    /\ pc = "new"
    /\ IF exact_ok
       THEN Started("exact")
       ELSE IF wildcard_ok
            THEN Started("wildcard")
            ELSE /\ socket' = "open"
                 /\ bound_to' = "none"
                 /\ running' = FALSE
                 /\ rpc' = "unstarted"
                 /\ pc' = "crashed"
    /\ UNCHANGED <<message_queue, waitVars, sendVars, pings, pongs, pong_giveups, delivered>>
    /\ UNCHANGED <<gazeVars, netVars>>
    /\ UNCHANGED <<message, trialVars, respVars, logVars, frames, aborted, histVars>>

InitChanSpec ==
    /\ InitChan /\ InitGaze /\ InitCoord
    /\ pc = "api"
    /\ wire = <<>>
    /\ faults = 0

NextChan ==
    \/ \E d \in ChanDatagrams : ChanDeliver(d)
    \/ \E fails \in SendFailures : ChanPong(fails)
    \/ ChanExit
    \/ \E t \in ChanTypes : ApiWait(t)
    \/ WaitGet
    \/ WaitPut
    \/ WaitTimeout
    \/ ApiWaitReturn
    \/ ApiGet
    \/ \E fails \in SendFailures : ApiSend("stage_sync_ack", fails)
    \/ ApiClose
    \/ Close
    \/ CloseJoin

SpecChan == InitChanSpec /\ [][NextChan]_vars

\* SpecClient: the control channel from the construction of the client on
InitClientSpec ==
    /\ InitNewClient /\ InitGaze /\ InitCoord
    /\ pc = "new"
    /\ wire = <<>>
    /\ faults = 0

NextClient ==
    \/ \E exact_ok \in BOOLEAN, wildcard_ok \in BOOLEAN : StartClient(exact_ok, wildcard_ok)
    \/ NextChan

SpecClient == InitClientSpec /\ [][NextClient]_vars

\* the threads of the process are scheduled again and again
FairSpecChan ==
    /\ SpecChan
    /\ WF_vars(WaitGet)
    /\ WF_vars(WaitPut)

(***************************************************************************)
(* Properties of the gaze channel (SpecGaze).                              *)
(***************************************************************************)
\* C1: a call of send_gaze_data made while GAZE_SHARING_ACTIVE is false hands
\* nothing to the gaze send socket and leaves network_stats['sent'] and
\* network_stats['errors'] as they were.
C1_NoTransmitWhileInactive ==
    [][(gaze_calls' > gaze_calls /\ ~GAZE_SHARING_ACTIVE) =>
         /\ gaze_sendto' = gaze_sendto
         /\ gaze_last' = gaze_last
         /\ network_stats'.sent = network_stats.sent
         /\ network_stats'.errors = network_stats.errors]_vars

\* two calls were made, both with the flag false: nothing reached the socket
C1_Witness ==
    /\ ~GAZE_SHARING_ACTIVE
    /\ gaze_calls = MaxGazeEvents
    /\ gaze_sendto = 0
    /\ network_stats.sent = 0

(***************************************************************************)
(* Properties of the control channel (SpecChan, FairSpecChan).             *)
(***************************************************************************)
\* the oldest message of type t in queue q
FirstOfType(q, t) ==
    q[CHOOSE i \in 1..Len(q) :
        TypeOf(q[i]) = t /\ \A j \in 1..(i - 1) : TypeOf(q[j]) # t]

\* the messages the receive loop can enqueue that a caller waits for
WaitableMessages ==
    {JsonLoads(d).msg : d \in {x \in ChanDatagrams : x.raw = "json" /\ x.type \in ChanTypes}}

C4_ExactlyOnePong == rpc # "pong" => pongs = pings

\* C4: every ping received leads to exactly one send_message('pong') call, and
\* the call transmits one pong, or none when all retry_count attempts fail.
C4_AtMostOnePong ==
    /\ pongs <= pings
    /\ rpc # "pong" => pongs + pong_giveups = pings
    /\ rpc = "pong" => pongs + pong_giveups + 1 = pings

\* two pings were received: one was answered, the answer to the other failed
C4_Witness ==
    /\ rpc = "recv"
    /\ pings = 2
    /\ pongs = 1
    /\ pong_giveups = 1

(***************************************************************************)
(* Properties of the stage coordinator (Spec).                             *)
(***************************************************************************)
InResponseCollection == pc \in {"resp_loop", "resp_wait"}
InGridDisplay == pc \in {"grid_extract", "grid_create", "grid_ack", "grid_loop"}

\* C2: within one response collection stage, once first_responder is set no
\* later local or remote response changes first_responder, first_response or
\* the colour of the target square.
C2_FirstResponderSetOnce ==
    [][(InResponseCollection /\ first_responder # None /\ InResponseCollection') =>
         /\ first_responder' = first_responder
         /\ first_response' = first_response
         /\ target_square_color' = target_square_color]_vars

\* the initiator's response came first, the follower's own different key later
C2_Witness ==
    /\ pc = "resp_loop"
    /\ response_received.server
    /\ response_received.client
    /\ first_responder = "server"
    /\ first_response = "F"
    /\ client_response = "H"
    /\ target_square_color = "green"

\* C5: the record appended for a stage_feedback message has first_responder,
\* first_response, trial_score and correct_category of that message's payload.
C5_LogFromPayload ==
    [][Len(data_log') > Len(data_log) =>
         LET rec == data_log'[Len(data_log')]
             feedback_data == Get(message, "data", EmptyData)
         IN  /\ TypeOf(message) = "stage_feedback"
             /\ rec.first_responder = Get(feedback_data, "first_responder", "")
             /\ rec.first_response = Get(feedback_data, "first_response", "")
             /\ rec.trial_score = Get(feedback_data, "trial_score", 0)
             /\ rec.correct_category = Get(feedback_data, "correct_category", "")]_vars

\* the local race was won by the follower, the record names the initiator
C5_Witness ==
    /\ Len(data_log) = 1
    /\ local_race.responder = "client"
    /\ data_log[1].first_responder = "server"
    /\ data_log[1].first_response = "F"

C7_SharingDuringGridDisplay ==
    [][/\ pc' = "grid_loop" => GAZE_SHARING_ACTIVE'
       /\ (pc = "grid_loop" /\ pc' # "grid_loop") => ~GAZE_SHARING_ACTIVE']_vars

\* grid display was left by escape
C7_Witness ==
    /\ pc = "abort_send"
    /\ TypeOf(message) = "stage_grid_display"
    /\ aborted
    /\ ~GAZE_SHARING_ACTIVE

\* C8: while the feedback display runs the sharing flag is true.
C8_SharingDuringFeedback == pc = "fb_loop" => GAZE_SHARING_ACTIVE

\* C9: when the stage_sync_ack of a grid display is sent, the flag is true,
\* the grid is the one built from the message's condition array and seed, and
\* no frame of the stage has been rendered.
C9_AckAfterGridBeforeFrames ==
    [][(pc = "grid_ack" /\ pc' # "grid_ack") =>
         LET trial_data == Get(message, "data", EmptyData)
             g == CreateSynchronizedGrid(Get(trial_data, "condition_array", <<>>),
                                         Get(trial_data, "seed", 0))
         IN  /\ GAZE_SHARING_ACTIVE
             /\ g.ok
             /\ grid_stimuli = g.grid
             /\ frames = 0
             /\ frames' = 0
             /\ ctl_seq' # ctl_seq
             /\ ctl_last'.type = "stage_sync_ack"
             /\ pc' = "grid_loop"]_vars

\* the acknowledgement went out, the display loop has not rendered yet
C9_Witness ==
    /\ pc = "grid_loop"
    /\ frames = 0
    /\ ctl_last.type = "stage_sync_ack"
    /\ ctl_last.ret
    /\ GAZE_SHARING_ACTIVE
    /\ Len(grid_stimuli) = 64

\* C10: terminate_task, the teardown after escape, is entered only by a step
\* that called send_message('end_experiment').
C10_EndSentBeforeTeardown ==
    [][(pc # "terminate" /\ pc' = "terminate") =>
         /\ aborted
         /\ ctl_seq' # ctl_seq
         /\ ctl_last'.type = "end_experiment"
         /\ ctl_last'.attempts >= 1]_vars

\* escape after the follower's own response: the send was made, teardown is next
C10_Witness ==
    /\ pc = "terminate"
    /\ aborted
    /\ TypeOf(message) = "stage_response"
    /\ response_received.client
    /\ ctl_last.type = "end_experiment"

(***************************************************************************)
(* Further properties of the control channel (SpecChan, SpecClient).       *)
(***************************************************************************)
\* C15: a send_message call makes at most retry_count sendto calls, none
\* without a socket and at least one with a socket; it returns True exactly
\* when its last sendto call raised nothing, and then every earlier one
\* raised; it returns False exactly when no call was made or all retry_count
\* calls raised.
C15_SendMessageContract ==
    [][ctl_seq' # ctl_seq =>
         LET r == ctl_last'
         IN  /\ r.attempts \in 0..retry_count
             /\ r.attempts = 0 <=> socket = "none"
             /\ r.ret <=> (r.attempts >= 1 /\ r.raised = r.attempts - 1)
             /\ ~r.ret <=> (r.raised = r.attempts /\ r.attempts \in {0, retry_count})]_vars

\* a call that succeeded at its last attempt
C15_Witness ==
    /\ ctl_last.type = "stage_sync_ack"
    /\ ctl_last.ret
    /\ ctl_last.attempts = retry_count
    /\ ctl_last.raised = retry_count - 1

\* the queue together with the message wait_for_message holds between get and put
Held == IF wmsg = NoMsg THEN message_queue ELSE Append(message_queue, wmsg)

Count(q, m) == Cardinality({i \in 1..Len(q) : q[i] = m})

Range(q) == {q[i] : i \in 1..Len(q)}

\* C16: no step of wait_for_message(T) changes how often a message of another
\* type occurs in the queue (counting the one held for the put), a step takes
\* at most one message of type T and only to return it, and nothing is held
\* when the call returns.
C16_WaitKeepsOtherTypes ==
    [][wpc' # wpc =>
         LET T == IF wpc = "idle" THEN wait_type' ELSE wait_type
         IN  /\ \A m \in Range(Held) \cup Range(Held') :
                   IF TypeOf(m) # T
                   THEN Count(Held', m) = Count(Held, m)
                   ELSE \/ Count(Held', m) = Count(Held, m)
                        \/ /\ Count(Held', m) = Count(Held, m) - 1
                           /\ wpc' = "ret"
                           /\ wret' = m
             /\ wpc' \in {"idle", "ret"} => wmsg' = NoMsg]_vars

\* the call timed out; the two messages of other types are in the queue, the
\* older one requeued behind the newer
C16_Witness ==
    /\ wpc = "ret"
    /\ wret = NoMsg
    /\ wait_type = "response_update"
    /\ delivered = 2
    /\ pings = 1
    /\ rpc = "recv"
    /\ Len(message_queue) = 2
    /\ TypeOf(message_queue[1]) = "ping"
    /\ TypeOf(message_queue[2]) = "start_experiment"

\* C17: a datagram that does not decode is dropped and an error counter is
\* incremented.
C17_DecodeErrorCounted ==
    [][(delivered' > delivered /\ message_queue' = message_queue) =>
         network_stats'.errors > network_stats.errors]_vars

\* C20: a start_client whose exact bind failed and whose wildcard bind
\* succeeded ends, like one whose exact bind succeeded, with the socket open,
\* running true and the receive loop started.
C20_WildcardFallbackStarts ==
    [][(pc = "new" /\ bound_to' \in {"exact", "wildcard"}) =>
         /\ socket' = "open"
         /\ running'
         /\ rpc' = "recv"
         /\ pc' = "api"
         /\ message_queue' = <<>>]_vars

\* the client bound to the wildcard address has received and answered a ping
C20_Witness ==
    /\ bound_to = "wildcard"
    /\ running
    /\ pings = 1
    /\ pongs = 1

(***************************************************************************)
(* Further properties of the stage coordinator (Spec, FairSpec).           *)
(***************************************************************************)
\* the follower is no longer in the experiment loop: it ended, aborted or died
LeftLoop ==
    pc \in {"save", "close", "join", "done", "abort_send", "terminate", "crashed",
            "start_timeout"}

\* C11: once an end_experiment message is in the queue the follower eventually
\* leaves the experiment loop, whatever stage it is in.
C11_EndMessageEnds ==
    (HasType(message_queue, "end_experiment") \/ TypeOf(wmsg) = "end_experiment")
        ~> LeftLoop

\* C12: when the wait for start_experiment has timed out the follower has
\* attempted to send end_experiment and has closed the control channel.
C12_StartTimeoutShutsDown ==
    pc = "start_timeout" => (ctl_last.type = "end_experiment" /\ socket = "closed")

\* C13: a follower waiting between stages with nothing queued does not wait
\* forever: the awaited message arrives or the follower leaves the loop.
C13_LostStageMessageAborts ==
    (pc = "main" /\ message_queue = <<>>) ~> (message_queue # <<>> \/ LeftLoop)

\* C14: a session that ended normally has handed data_log to persistence, and
\* a session ended by escape does not end in an unhandled error.
C14_DataPersistedOnEveryEnd ==
    /\ pc = "done" => saved = data_log
    /\ aborted => pc # "crashed"

\* C18: the main loop counts a message of a type it does not dispatch on.
C18_UnknownTypeCounted ==
    [][(pc = "main" /\ pc' = "main" /\ message_queue # <<>>
        /\ message_queue' = Tail(message_queue)) =>
         network_stats'.errors > network_stats.errors]_vars

\* C19: no unhandled error ends the session while a stage_grid_display
\* message is being processed.
C19_MalformedGridNotFatal ==
    ~(pc = "crashed" /\ ~aborted /\ TypeOf(message) = "stage_grid_display")


\* C21: once a sample of the peer (computer 'A') has been received, remote_gaze_data
\* equals the sample received last, whatever the sharing flag is and whether its
\* timestamp is newer or older than the stored one.
C21_LastReceivedWins ==
    gaze_received # NoMsg => remote_gaze_data = gaze_received

\* two samples arrived, the older one last, with sharing off: the older one is stored
C21_Witness ==
    /\ network_stats.received = 2
    /\ gaze_received # NoMsg
    /\ gaze_received.timestamp = 5
    /\ remote_gaze_data.timestamp = 5
    /\ ~GAZE_SHARING_ACTIVE

\* C22: a call of send_gaze_data with sharing active makes one transmit attempt; it
\* adds one to 'sent' and leaves 'errors', or adds one to 'errors' and leaves 'sent';
\* it returns to its caller in the same stage with the flag as it was.
C22_SendCountsOnce ==
    [][gaze_calls' > gaze_calls /\ GAZE_SHARING_ACTIVE =>
         /\ gaze_sendto' = gaze_sendto + 1
         /\ \/ /\ network_stats'.sent = network_stats.sent + 1
               /\ network_stats'.errors = network_stats.errors
            \/ /\ network_stats'.errors = network_stats.errors + 1
               /\ network_stats'.sent = network_stats.sent
         /\ network_stats'.received = network_stats.received
         /\ UNCHANGED <<pc, stage, GAZE_SHARING_ACTIVE, running>>]_vars

\* one call succeeded and one failed, both with sharing active
C22_Witness ==
    /\ gaze_calls = 2
    /\ gaze_sendto = 2
    /\ network_stats.sent = 1
    /\ network_stats.errors = 1
    /\ network_stats.received = 0

\* C23: the follower sends at most one response_update for a trial number, whatever
\* keys are pressed and however stage_response is delivered.
C23_OneResponsePerTrial ==
    updates_sent <= 1

\* C24: every response_update the follower sends carries responder 'client', every
\* gaze sample it sends carries computer 'B', and a received response_update
\* is counted as the peer's response only when its responder is 'server'.
C24_ResponderIdentity ==
    [][/\ (ctl_seq' # ctl_seq /\ ctl_last'.type = "response_update")
             => ctl_last'.data.responder = "client"
       /\ gaze_sendto' > gaze_sendto => gaze_last'.computer = "B"
       /\ (~response_received.server /\ response_received'.server)
             => /\ wret # NoMsg
                /\ TypeOf(wret) = "response_update"
                /\ Get(Get(wret, "data", EmptyData), "responder", None) = "server"]_vars

\* the follower sent a gaze sample and its response_update, took a response_update
\* of the initiator as the peer's, and a response_update naming 'client' arrived too
C24_Witness ==
    /\ gaze_sendto > 0
    /\ updates_sent = 1
    /\ response_received.server
    /\ response_received.client
    /\ faults = 1
    /\ \E i \in 1..Len(message_queue) :
          /\ message_queue[i].type = "response_update"
          /\ message_queue[i].data.responder = "client"

\* the trial parameters are the ones message m carries (lines 1056-1065)
ExtractedFrom(m) ==
    LET trial_data == Get(m, "data", EmptyData)
    IN  /\ current_trial = Get(trial_data, "trial_number", 0)
        /\ trial_seed = Get(trial_data, "seed", 0)
        /\ condition_array = Get(trial_data, "condition_array", <<>>)
        /\ target_position = Get(trial_data, "target_position", 0)
        /\ correct_category = Get(trial_data, "target_category", "")

\* C25: a gaze sample is sent only from the display loop of a grid stage whose
\* parameters have been extracted from its stage_grid_display message; no sample
\* is sent between setting the sharing flag and the end of the extraction.
C25_NoGazeBeforeExtraction ==
    [][/\ gaze_sendto' > gaze_sendto =>
             /\ pc = "grid_loop"
             /\ stage = "GridDisplay"
             /\ TypeOf(message) = "stage_grid_display"
             /\ ExtractedFrom(message)
       /\ pc \in {"grid_extract", "grid_create", "grid_ack"} => gaze_sendto' = gaze_sendto
      ]_vars

\* a gaze sample has been sent in the grid stage of trial 1
C25_Witness ==
    /\ pc = "grid_loop"
    /\ gaze_sendto = 1
    /\ current_trial = 1
    /\ GAZE_SHARING_ACTIVE

\* C26: once shutdown is requested (running is cleared), the control receive loop
\* and the gaze receive loop both terminate eventually.
C26_ReceiveLoopsTerminate ==
    ~running ~> (rpc = "exited" /\ grpc = "exited")

\* C27: the follower enters ResponseCollection only from GridDisplay and Feedback
\* only from ResponseCollection, however the stage messages are delivered.
C27_StageOrder ==
    [][/\ (pc = "main" /\ pc' = "resp_ack") => stage = "GridDisplay"
       /\ (pc = "main" /\ pc' = "fb_ack") => stage = "ResponseCollection"]_vars

\* C28: data_log holds at most one record per trial number, in increasing order of
\* trial number.
C28_OneRecordPerTrial ==
    \A i, j \in 1..Len(data_log) : i < j => data_log[i].trial < data_log[j].trial

(***************************************************************************)
(* SpecSession: a session of two trials on a network that delivers every   *)
(* datagram once and in order, with an operator who answers every trial.   *)
(* The trials carry the boundary values of the parameters.                 *)
(***************************************************************************)
Cond2 == [i \in 1..64 |-> (64 - i) % 4]

GridDataLow == [trial_number |-> 1, seed |-> 0, condition_array |-> Cond1,
                target_position |-> 0, target_category |-> "face"]

GridDataHigh == [trial_number |-> 2, seed |-> 42, condition_array |-> Cond2,
                 target_position |-> 63, target_category |-> "face"]

FeedbackData2 == [trial_score |-> 0, total_score |-> 1, first_responder |-> "client",
                  first_response |-> "H", correct_category |-> "face"]

SessionScript ==
    << Datagram("start_experiment", EmptyData),
       Datagram("stage_grid_display", GridDataLow),
       Datagram("ping", EmptyData),
       Datagram("stage_response", EmptyData),
       Datagram("response_update", UpdateServer),
       Datagram("stage_feedback", [FeedbackData1 EXCEPT !.correct_category = "face"]),
       Datagram("stage_grid_display", GridDataHigh),
       Datagram("stage_response", EmptyData),
       Datagram("response_update", UpdateServer),
       Datagram("stage_feedback", FeedbackData2),
       Datagram("end_experiment", EmptyData) >>

\* the parameters the initiator transmitted for trial n
Transmitted(n) == IF n = 1 THEN GridDataLow ELSE GridDataHigh

InitSession ==
    /\ InitChan /\ InitGaze /\ InitCoord
    /\ pc = "start"
    /\ wire = SessionScript
    /\ faults = 0

\* what arrives on the gaze port during the session
SessionGaze ==
    { GazeDatagram(1, 2, TRUE, 10, "A"),
      Garbage }

NextSession ==
    \/ NetNext
    \/ NetPong(0)
    \/ NetExit
    \/ \E d \in SessionGaze : GazeLoopStep(d)
    \/ WaitGet
    \/ WaitPut
    \/ WaitTimeout
    \/ CallWaitStart
    \/ StartReturn
    \/ AckStart(0)
    \/ DispatchGridDisplay
    \/ GridExtract
    \/ GridCreate
    \/ GridAck(0)
    \/ \E sample \in Samples, ok \in BOOLEAN : GridFrame(sample, ok)
    \/ GridExit
    \/ DispatchResponse
    \/ RespAck(0)
    \/ \E key \in PressedKeys : RespKey(key, 0)
    \/ RespNoKey
    \/ RespWaitReturn
    \/ RespExit
    \/ DispatchFeedback
    \/ FeedbackAck(0)
    \/ FeedbackFrame
    \/ FeedbackLog
    \/ DispatchEnd
    \/ DispatchOther
    \/ SaveData
    \/ Close
    \/ CloseJoin

SpecSession == InitSession /\ [][NextSession]_vars

(***************************************************************************)
(* SpecGrid: create_synchronized_grid run in two processes on the same     *)
(* seed, condition_array and image sets: by the follower, on the           *)
(* parameters of the first stage_grid_display, and by its peer.            *)
(***************************************************************************)
CondFaces == [i \in 1..64 |-> 0]

GridSeeds == {0, 1, 42}
GridConds == {Cond1, Cond2, CondFaces}

GridScript(seed, cond) ==
    << Datagram("start_experiment", EmptyData),
       Datagram("stage_grid_display",
                [trial_number |-> 1, seed |-> seed, condition_array |-> cond,
                 target_position |-> 6, target_category |-> "house"]) >>

\* the peer builds its grid from the seed and condition_array it transmitted
PeerGridCreate ==
    /\ pc \in {"grid_create", "grid_ack"}
    /\ ~image_choice.A.created
    /\ image_choice' =
          [image_choice EXCEPT
             !.A = [@ EXCEPT !.created = TRUE,
                             !.selected_images =
                                 SelectedImages(condition_array, trial_seed,
                                                image_choice.A.salt)]]
    /\ UNCHANGED <<chanVars, gazeVars, pc, message, current_trial, trial_seed,
                   condition_array, target_position, correct_category, grid_stimuli,
                   singleVars, respVars, logVars, frames, aborted, histVars>>
    /\ UNCHANGED netVars

InitGridSpec ==
    /\ InitChan /\ InitGaze /\ InitLocals
    /\ image_choice \in [Processes -> {NoGrid(salt) : salt \in HashSalts}]
    /\ pc = "start"
    /\ \E seed \in GridSeeds, cond \in GridConds : wire = GridScript(seed, cond)
    /\ faults = 0

NextGrid ==
    \/ NetNext
    \/ WaitGet
    \/ WaitTimeout
    \/ CallWaitStart
    \/ StartReturn
    \/ AckStart(0)
    \/ DispatchGridDisplay
    \/ GridExtract
    \/ GridCreate
    \/ PeerGridCreate

SpecGrid == InitGridSpec /\ [][NextGrid]_vars

\* category and selected_image_idx of cell i of the grid of process p (lines 912-915)
GridCell(p, i) ==
    LET category == CATEGORY_MAP[condition_array[i] + 1]
    IN  [category |-> category, image_idx |-> image_choice[p].selected_images[category]]

C30_SameGridInBothProcesses ==
    (image_choice.A.created /\ image_choice.B.created) =>
        \A i \in 1..64 : GridCell("A", i) = GridCell("B", i)

(***************************************************************************)
(* SpecLossySession: the two-trial session on a network that may lose      *)
(* datagrams.                                                              *)
(***************************************************************************)
NextLossySession ==
    \/ NextSession
    \/ NetDrop

SpecLossySession == InitSession /\ [][NextLossySession]_vars

(***************************************************************************)
(* SpecQueue: the inbound queue of a started channel whose peer sends two  *)
(* response_update messages, 'F' first, then a ping; the transport keeps   *)
(* their order, the consumer calls wait_for_message and get_message.       *)
(***************************************************************************)
UpdateLater == [responder |-> "server", response |-> "L", rt |-> 2]

QueueScript ==
    << Datagram("response_update", UpdateServer),
       Datagram("response_update", UpdateLater),
       Datagram("ping", EmptyData) >>

InitQueueSpec ==
    /\ InitChan /\ InitGaze /\ InitCoord
    /\ pc = "api"
    /\ wire = QueueScript
    /\ faults = 0

NextQueue ==
    \/ NetNext
    \/ NetPong(0)
    \/ \E t \in ChanTypes : ApiWait(t)
    \/ WaitGet
    \/ WaitPut
    \/ WaitTimeout
    \/ ApiWaitReturn
    \/ ApiGet

SpecQueue == InitQueueSpec /\ [][NextQueue]_vars

\* C31: a step of the control receive loop (a delivery, a pong, its exit) only
\* appends to message_queue and sends; a step of the gaze receive loop only
\* writes remote_gaze_data and the network counters; neither changes the stage,
\* the sharing flag, the trial's parameters, the responses or data_log.
C31_BackgroundLoopsFrame ==
    [][LET control == rpc' # rpc \/ wire' # wire
           gaze == \/ network_stats'.received # network_stats.received
                   \/ (network_stats'.errors # network_stats.errors
                       /\ gaze_calls' = gaze_calls)
       IN  /\ (control \/ gaze) =>
                 UNCHANGED <<pc, stage, message, GAZE_SHARING_ACTIVE, trialVars, respVars,
                             logVars, frames, wpc, running>>
           /\ control =>
                 /\ UNCHANGED <<remote_gaze_data, network_stats>>
                 /\ \/ message_queue' = message_queue
                    \/ /\ Len(message_queue') = Len(message_queue) + 1
                       /\ SubSeq(message_queue', 1, Len(message_queue)) = message_queue
                 /\ ctl_seq' # ctl_seq => ctl_last'.type = "pong"
           /\ gaze => UNCHANGED <<message_queue, rpc, ctl_last, ctl_seq>>]_vars

\* in the display loop of trial 1, with gaze sharing on, the control loop has
\* answered a ping and the gaze loop has stored a sample and counted an
\* undecodable datagram
C31_Witness ==
    /\ pc = "grid_loop"
    /\ GAZE_SHARING_ACTIVE
    /\ ctl_last.type = "pong"
    /\ gaze_calls = 0
    /\ network_stats.received = 1
    /\ network_stats.errors = 1
    /\ remote_gaze_data.timestamp = 10

\* C32: from every state inside the response loop the follower eventually leaves
\* the response stage.
C32_ResponseStageTerminates ==
    InResponseCollection ~> ~InResponseCollection

\* C33: the main loop never dequeues and drops the server's response_update of a
\* trial whose response stage has not run yet (its stage_response being queued or
\* in flight behind it, and no other copy of the update), whatever its arrival
\* order relative to stage_response.
C33_ServerResponseNotDropped ==
    [][~(/\ pc = "main" /\ pc' = "main"
         /\ stage = "GridDisplay"
         /\ message_queue # <<>>
         /\ message_queue' = Tail(message_queue)
         /\ TypeOf(Head(message_queue)) = "response_update"
         /\ Get(Get(Head(message_queue), "data", EmptyData), "responder", None) = "server"
         /\ \A i \in 1..Len(message_queue') : TypeOf(message_queue'[i]) # "response_update"
         /\ \A i \in 1..Len(wire) : wire[i].raw = "json" => wire[i].type # "response_update"
         /\ \/ \E i \in 1..Len(message_queue') : TypeOf(message_queue'[i]) = "stage_response"
            \/ \E i \in 1..Len(wire) : wire[i].raw = "json" /\ wire[i].type = "stage_response"
        )]_vars

\* C34: of two messages of one type the consumer is handed the one enqueued first:
\* when it holds the response_update enqueued second, the one enqueued first is
\* neither in the queue nor held by a wait_for_message in progress.
C34_SameTypeInArrivalOrder ==
    (message # NoMsg /\ TypeOf(message) = "response_update"
        /\ message.data = UpdateLater) =>
       /\ \A i \in 1..Len(message_queue) :
             ~(TypeOf(message_queue[i]) = "response_update"
               /\ message_queue[i].data = UpdateServer)
       /\ ~(wmsg # NoMsg /\ TypeOf(wmsg) = "response_update" /\ wmsg.data = UpdateServer)

\* C35: a trial record written, after the records of the earlier trials, for a
\* trial in which the follower gave no response holds None as client_response
\* and client_rt.
C35_NoStaleResponseLogged ==
    [][(/\ Len(data_log') > Len(data_log)
        /\ Len(data_log) = current_trial - 1
        /\ updates_sent = 0) =>
         LET rec == data_log'[Len(data_log')]
         IN  rec.client_response = None /\ rec.client_rt = NoneNum]_vars

\* C36: the handler of a dequeued stage_grid_display, stage_response or
\* stage_feedback message gets past its opening part only by one send_message call
\* of stage_sync_ack, which leads into the stage's display loop, and no other step
\* of the follower sends a stage_sync_ack.
C36_OneAckPerStageMessage ==
    [][LET before_ack(p) == p \in {"grid_extract", "grid_create", "grid_ack", "resp_ack",
                                   "fb_ack"}
           in_loop(p) == p \in {"grid_loop", "resp_loop", "fb_loop"}
           ack_sent == ctl_seq' # ctl_seq /\ ctl_last'.type = "stage_sync_ack"
       IN  /\ (before_ack(pc) /\ ~before_ack(pc')) => (ack_sent /\ in_loop(pc'))
           /\ ack_sent => (before_ack(pc) /\ in_loop(pc'))]_vars

\* C37: ack_start is sent only by the step that follows the dequeuing of a
\* start_experiment message, and that step happens at most once; until then no
\* stage_sync_ack or response_update has been sent and no stage entered, and no
\* stage message held by the queue or by wait_for_message is lost.
C37_AckStartOnlyAfterStart ==
    [][LET early(p) == p \in {"start", "wait_start", "ack_start", "start_timeout"}
           is_stage(m) == TypeOf(m) \in {"stage_grid_display", "stage_response",
                                         "stage_feedback"}
           kept(q, w) == Cardinality({i \in 1..Len(q) : is_stage(q[i])})
                           + (IF is_stage(w) THEN 1 ELSE 0)
       IN  /\ (ctl_seq' # ctl_seq /\ ctl_last'.type = "ack_start") =>
                 (pc = "ack_start" /\ pc' = "main")
           /\ (pc' = "ack_start" /\ pc # "ack_start") =>
                 (pc = "wait_start" /\ TypeOf(wret) = "start_experiment")
           /\ early(pc') => early(pc)
           /\ pc' = "start" => pc = "start"
           /\ pc' = "wait_start" => pc \in {"start", "wait_start"}
           /\ early(pc') =>
                 /\ ctl_last'.type \notin {"ack_start", "stage_sync_ack", "response_update"}
                 /\ stage' = "AwaitStart"
                 /\ message' = NoMsg
           /\ early(pc) => kept(message_queue', wmsg') >= kept(message_queue, wmsg)]_vars

\* the stage_grid_display that overtook start_experiment is still queued when the
\* start has been acknowledged
C37_Witness ==
    /\ pc = "main"
    /\ stage = "AwaitStart"
    /\ ctl_last.type = "ack_start"
    /\ faults = 1
    /\ wire = SubSeq(Script, 3, Len(Script))
    /\ Len(message_queue) = 1
    /\ TypeOf(message_queue[1]) = "stage_grid_display"
    /\ message_queue[1].data = GridData1

\* C38: a receipt of the gaze receive loop stores the datagram's fields in
\* remote_gaze_data and adds one to 'received' when the datagram is decodable and
\* its origin is 'A'; a decodable datagram of another origin changes neither
\* remote_gaze_data nor a counter; an undecodable one adds one to 'errors' and
\* changes nothing else.
C38_OnlyPeerOriginStored ==
    [][(/\ gaze_calls' = gaze_calls
        /\ \/ gaze_datagram' # gaze_datagram
           \/ network_stats' # network_stats
           \/ remote_gaze_data' # remote_gaze_data) =>
         LET d == gaze_datagram'
         IN  IF d.raw = "json" /\ Get(d.body, "computer", None) = "A"
             THEN /\ \A k \in DOMAIN d.body : remote_gaze_data'[k] = d.body[k]
                  /\ network_stats' = [network_stats EXCEPT !.received = @ + 1]
             ELSE IF d.raw = "json"
             THEN /\ remote_gaze_data' = remote_gaze_data
                  /\ network_stats' = network_stats
             ELSE /\ remote_gaze_data' = remote_gaze_data
                  /\ network_stats' = [network_stats EXCEPT !.errors = @ + 1]]_vars

\* the peer's sample was stored, then the follower's own datagram came back
C38_Witness ==
    /\ gaze_datagram = GazeDatagram(7, 7, TRUE, 20, "B")
    /\ network_stats.received = 1
    /\ network_stats.errors = 0
    /\ remote_gaze_data.timestamp = 10

(***************************************************************************)
(* SpecSingle: the single-player game, src/single_easy_medium_updated.py.  *)
(* run_trial chooses a condition and builds the grid with                  *)
(* _create_grid_from_condition; _display_grid draws entry i of the grid at *)
(* grid_positions[i].                                                      *)
(***************************************************************************)
\* the random draws of one call are taken from the sequences
\* k |-> (base + k * step) mod ImagesPerCategory
MaxDrawBase == 3
MaxDrawStep == 2

GRID_SIZE == 8

\* the default conditions of _load_conditions
SingleConditions ==
    { <<2, 0, 1, 3>>, <<3, 2, 0, 1>>, <<1, 3, 2, 0>>, <<0, 1, 3, 2>>, <<3, 1, 2, 0>> }

Difficulties == {"easy", "medium"}

\* the results of the calls of random.randint(0, len(self.images[category]) - 1), by
\* call number from 0
DrawSequences ==
    { [k \in 0..15 |-> (base + k * step) % ImagesPerCategory] :
          base \in 0..MaxDrawBase, step \in 0..MaxDrawStep }

\* _create_grid_from_condition(condition, difficulty): grid_image_indices; the n-th
\* append (from 0) is made in the iteration with the loop variables below
CreateGridFromCondition(cond, diff, draw) ==
    LET condition_categories == [i \in 1..Len(cond) |-> CATEGORY_MAP[cond[i] + 1]]
        expanded_condition ==
            [e \in 1..16 |-> LET row == (e - 1) \div 4
                                 col == (e - 1) % 4
                                 original_idx == (row \div 2) * 2 + (col \div 2)
                             IN  cond[original_idx + 1]]
        expanded_categories == [e \in 1..16 |-> CATEGORY_MAP[expanded_condition[e] + 1]]
    IN  IF diff = "easy"
        THEN [n \in 1..64 |->
                 LET small_row == (n - 1) \div 32
                     small_col == ((n - 1) \div 16) % 2
                 IN  [category |-> condition_categories[small_row * 2 + small_col + 1],
                      selected_image_idx |-> draw[small_row * 2 + small_col]]]
        ELSE [n \in 1..64 |->
                 LET small_row == (n - 1) \div 16
                     small_col == ((n - 1) \div 4) % 4
                 IN  [category |-> expanded_categories[small_row * 4 + small_col + 1],
                      selected_image_idx |-> draw[small_row * 4 + small_col]]]

\* _calculate_grid_positions(): the pixel position of every grid index
CalculateGridPositions ==
    [i \in 1..(GRID_SIZE * GRID_SIZE) |->
        LET row == (i - 1) \div GRID_SIZE
            col == (i - 1) % GRID_SIZE
        IN  <<(col * 80) - 280, 280 - (row * 80)>>]

\* _display_grid(grid_images): what is drawn at pixel position pos
DisplayGrid(grid, pos) ==
    LET i == CHOOSE j \in 1..Len(grid) : CalculateGridPositions[j] = pos
    IN  grid[i]

\* run_trial(difficulty), up to the construction of the grid
RunTrial(cond, diff, draw) ==
    /\ pc = "single"
    /\ condition' = cond
    /\ difficulty' = diff
    /\ grid_image_indices' = CreateGridFromCondition(cond, diff, draw)
    /\ UNCHANGED <<chanVars, gazeVars, pc, message, current_trial, trial_seed,
                   condition_array, target_position, correct_category, grid_stimuli,
                   image_choice, respVars, logVars, frames, aborted, histVars>>
    /\ UNCHANGED netVars

InitSingle ==
    /\ InitChan /\ InitGaze /\ InitCoord
    /\ pc = "single"
    /\ wire = <<>>
    /\ faults = 0

NextSingle ==
    \E cond \in SingleConditions, diff \in Difficulties, draw \in DrawSequences :
        RunTrial(cond, diff, draw)

SpecSingle == InitSingle /\ [][NextSingle]_vars

\* C39: for difficulty 'easy' the grid has 64 entries, the entry drawn at row r,
\* column c of the 8x8 grid has the category of condition[(r div 4)*2 + (c div 4)],
\* and all cells of one 4x4 block show the same image.
C39_EasyBlocks ==
    difficulty = "easy" =>
        LET shown(r, c) == DisplayGrid(grid_image_indices, <<(c * 80) - 280, 280 - (r * 80)>>)
        IN  /\ Len(grid_image_indices) = 64
            /\ \A r \in 0..7, c \in 0..7 :
                  shown(r, c).category
                      = CATEGORY_MAP[condition[(r \div 4) * 2 + (c \div 4) + 1] + 1]
            /\ \A r \in 0..7, c \in 0..7, r2 \in 0..7, c2 \in 0..7 :
                  (r \div 4 = r2 \div 4 /\ c \div 4 = c2 \div 4) => shown(r, c) = shown(r2, c2)

\* C40: for difficulty 'medium' the grid has 64 entries, the entry drawn at row r,
\* column c has the category of condition[(r div 4)*2 + (c div 4)], and the four
\* cells of every aligned 2x2 block show the same image.
C40_MediumBlocks ==
    difficulty = "medium" =>
        LET shown(r, c) == DisplayGrid(grid_image_indices, <<(c * 80) - 280, 280 - (r * 80)>>)
        IN  /\ Len(grid_image_indices) = 64
            /\ \A r \in 0..7, c \in 0..7 :
                  shown(r, c).category
                      = CATEGORY_MAP[condition[(r \div 4) * 2 + (c \div 4) + 1] + 1]
            /\ \A r \in 0..7, c \in 0..7, r2 \in 0..7, c2 \in 0..7 :
                  (r \div 2 = r2 \div 2 /\ c \div 2 = c2 \div 2) => shown(r, c) = shown(r2, c2)
====
